---- MODULE Spec2Model ----
(***************************************************************************)
(* Telemetry durability and delivery subsystem of the snow sensor network: *)
(* the radio message codec (sensor/lora_transmit.py,                       *)
(* base_station/lora_receive.py), the station's day-partitioned ledger     *)
(* (sensor/local_storage.py), the delivery attempt (sensor/main.py) and    *)
(* the base-station archive (base_station/data_aggregator.py).             *)
(*                                                                         *)
(* Text is a sequence of one-character strings.  Decimal numbers are exact *)
(* decimal fractions [m, e] standing for m / 10^e, normalised so that m    *)
(* has no trailing zero while e > 0.                                       *)
(***************************************************************************)
EXTENDS Integers, Sequences, FiniteSets, TLC

\* ------------------------------------------------------------------ bounds

\* Longest raw line handed to the decoder.
MaxLineLen == 7

\* Packets the radio hands to the base station in one run.
MaxPackets == 3

\* Last tick of the base station's clock; TicksPerDay ticks make a UTC day.
MaxTick == 3
TicksPerDay == 2

\* Days the station's readings fall on (1..MaxDay), the most rows a
\* partition file takes, the calls made on a station in one run, and the
\* most timestamps handed to one mark_as_sent.
MaxDay == 3
MaxRows == 2
MaxCalls == 3
MaxTargets == 2

\* I/O errors and process deaths in one run of a station.
MaxFaults == 1

\* Ticks of the monotonic clock that pass at most during one call of the
\* station loop (take_reading, transmit_and_store) or past the end of a sleep.
MaxElapsed == 3

\* ------------------------------------------------------------- text helpers

Digits == <<"0", "1", "2", "3", "4", "5", "6", "7", "8", "9">>

IsDigit(c) == \E i \in 1..10 : Digits[i] = c

DigitValue(c) == (CHOOSE i \in 1..10 : Digits[i] = c) - 1

IsSpace(c) == c = " "

Abs(n) == IF n < 0 THEN -n ELSE n

RECURSIVE Pow10(_)
Pow10(k) == IF k = 0 THEN 1 ELSE 10 * Pow10(k - 1)

\* str() of a non-negative integer
RECURSIVE nat_str(_)
nat_str(n) == IF n < 10 THEN <<Digits[n + 1]>>
              ELSE nat_str(n \div 10) \o <<Digits[(n % 10) + 1]>>

\* str() of an integer
int_str(n) == IF n < 0 THEN <<"-">> \o nat_str(-n) ELSE nat_str(n)

\* n written with exactly d digits, zero padded on the left
RECURSIVE padded(_, _)
padded(n, d) == IF d = 0 THEN <<>>
                ELSE padded(n \div 10, d - 1) \o <<Digits[(n % 10) + 1]>>

\* str.strip(): leading and trailing whitespace removed
RECURSIVE lstrip(_)
lstrip(s) == IF s # <<>> /\ IsSpace(Head(s)) THEN lstrip(Tail(s)) ELSE s

RECURSIVE rstrip(_)
rstrip(s) == IF s # <<>> /\ IsSpace(s[Len(s)])
             THEN rstrip(SubSeq(s, 1, Len(s) - 1)) ELSE s

strip(s) == rstrip(lstrip(s))

\* str.split(","): always at least one item; "" splits to [""]
RECURSIVE split_from(_, _, _)
split_from(s, i, cur) ==
    IF i > Len(s) THEN <<cur>>
    ELSE IF s[i] = "," THEN <<cur>> \o split_from(s, i + 1, <<>>)
    ELSE split_from(s, i + 1, Append(cur, s[i]))

split(s) == split_from(s, 1, <<>>)

\* ",".join(parts)
RECURSIVE join(_)
join(parts) == IF parts = <<>> THEN <<>>
               ELSE IF Len(parts) = 1 THEN parts[1]
               ELSE parts[1] \o <<",">> \o join(Tail(parts))

\* --------------------------------------------------------- decimal numbers

None == [kind |-> "None"]

RECURSIVE norm(_, _)
norm(m, e) == IF e > 0 /\ m % 10 = 0 THEN norm(m \div 10, e - 1)
              ELSE [kind |-> "float", m |-> m, e |-> e]

Dec(m, e) == norm(m, e)

\* |x| * 10^d rounded to an integer, ties to even
round_scaled(x, d) ==
    IF x.e <= d THEN Abs(x.m) * Pow10(d - x.e)
    ELSE LET unit == Pow10(x.e - d)
             q    == Abs(x.m) \div unit
             r    == Abs(x.m) % unit
         IN  IF 2 * r > unit \/ (2 * r = unit /\ q % 2 = 1) THEN q + 1 ELSE q

\* f"{x:.<d>f}" for d >= 1
format_fixed(x, d) ==
    LET q == round_scaled(x, d)
    IN  (IF x.m < 0 THEN <<"-">> ELSE <<>>)
        \o nat_str(q \div Pow10(d)) \o <<".">> \o padded(q % Pow10(d), d)

\* value of a run of digits in which single underscores may separate digits
\* (Python's numeric literal grammar); FALSE in ok when s is no such run
RECURSIVE digits_value(_, _, _)
digits_value(s, acc, prevDigit) ==
    IF s = <<>> THEN [ok |-> prevDigit, v |-> acc]
    ELSE IF IsDigit(Head(s))
         THEN digits_value(Tail(s), acc * 10 + DigitValue(Head(s)), TRUE)
    ELSE IF Head(s) = "_" /\ prevDigit
         THEN digits_value(Tail(s), acc, FALSE)
    ELSE [ok |-> FALSE, v |-> 0]

digit_count(s) == Cardinality({i \in 1..Len(s) : IsDigit(s[i])})

unsigned(s) == IF s # <<>> /\ Head(s) \in {"-", "+"} THEN Tail(s) ELSE s

is_negative(s) == s # <<>> /\ Head(s) = "-"

\* int(text): ValueError unless an optionally signed run of digits
parse_int(text) ==
    LET s == strip(text)
        r == digits_value(unsigned(s), 0, FALSE)
    IN  IF r.ok THEN [ok |-> TRUE, v |-> IF is_negative(s) THEN -r.v ELSE r.v]
        ELSE [ok |-> FALSE, v |-> 0]

\* float(text): sign, digits, optional point and digits (one side of the
\* point may be empty, not both)
parse_float(text) ==
    LET s     == unsigned(strip(text))
        neg   == is_negative(strip(text))
        dots  == {i \in 1..Len(s) : s[i] = "."}
        p     == IF dots = {} THEN Len(s) + 1 ELSE CHOOSE i \in dots : TRUE
        ip    == SubSeq(s, 1, p - 1)
        fp    == SubSeq(s, p + 1, Len(s))
        ir    == IF ip = <<>> THEN [ok |-> TRUE, v |-> 0] ELSE digits_value(ip, 0, FALSE)
        fr    == IF fp = <<>> THEN [ok |-> TRUE, v |-> 0] ELSE digits_value(fp, 0, FALSE)
        e     == digit_count(fp)
        mag   == ir.v * Pow10(e) + fr.v
    IN  IF Cardinality(dots) <= 1 /\ ir.ok /\ fr.ok /\ (ip # <<>> \/ fp # <<>>)
        THEN [ok |-> TRUE, v |-> Dec(IF neg THEN -mag ELSE mag, e)]
        ELSE [ok |-> FALSE, v |-> None]

\* ------------------------------------------------------------ message codec

\* the transmitter with the battery voltage written to one decimal
format_message_one_decimal(data) ==
    join(<< data.station_id,
            data.timestamp,
            int_str(data.raw_distance_mm),
            int_str(data.snow_depth_mm),
            IF data.sensor_temp_c # None
               THEN format_fixed(data.sensor_temp_c, 1) ELSE <<"-">>,
            IF data.battery_voltage # None
               THEN format_fixed(data.battery_voltage, 1) ELSE <<"-">> >>)

\* LoRaTransmitter._format_message
format_message(data) ==
    join(<< data.station_id,
            data.timestamp,
            int_str(data.raw_distance_mm),
            int_str(data.snow_depth_mm),
            IF data.sensor_temp_c # None
               THEN format_fixed(data.sensor_temp_c, 1) ELSE <<"-">>,
            IF data.battery_voltage # None
               THEN format_fixed(data.battery_voltage, 2) ELSE <<"-">> >>)

MalformedMessage == [kind |-> "error", error |-> "Malformed message (expected 6 fields)"]
InvalidLiteral   == [kind |-> "error", error |-> "invalid literal"]

\* the receiver refusing only lines of fewer than six fields
parse_message_at_least_six(message) ==
    LET raw   == split(message)
        parts == [i \in 1..Len(raw) |-> strip(raw[i])]
    IN  IF Len(parts) < 6 THEN MalformedMessage
        ELSE LET raw_distance == parse_int(parts[3])
                 snow_depth   == parse_int(parts[4])
                 temp_c       == IF parts[5] = <<"-">> THEN [ok |-> TRUE, v |-> None]
                                 ELSE parse_float(parts[5])
                 battery_v    == IF parts[6] = <<"-">> THEN [ok |-> TRUE, v |-> None]
                                 ELSE parse_float(parts[6])
             IN  IF raw_distance.ok /\ snow_depth.ok /\ temp_c.ok /\ battery_v.ok
                 THEN [kind |-> "parsed",
                       station_id |-> parts[1],
                       timestamp |-> parts[2],
                       raw_distance_mm |-> raw_distance.v,
                       snow_depth_mm |-> snow_depth.v,
                       sensor_temp_c |-> temp_c.v,
                       battery_voltage |-> battery_v.v]
                 ELSE InvalidLiteral

\* LoRaReceiver._parse_message
parse_message(message) ==
    LET raw   == split(message)
        parts == [i \in 1..Len(raw) |-> strip(raw[i])]
    IN  IF Len(parts) # 6 THEN MalformedMessage
        ELSE LET raw_distance == parse_int(parts[3])
                 snow_depth   == parse_int(parts[4])
                 temp_c       == IF parts[5] = <<"-">> THEN [ok |-> TRUE, v |-> None]
                                 ELSE parse_float(parts[5])
                 battery_v    == IF parts[6] = <<"-">> THEN [ok |-> TRUE, v |-> None]
                                 ELSE parse_float(parts[6])
             IN  IF raw_distance.ok /\ snow_depth.ok /\ temp_c.ok /\ battery_v.ok
                 THEN [kind |-> "parsed",
                       station_id |-> parts[1],
                       timestamp |-> parts[2],
                       raw_distance_mm |-> raw_distance.v,
                       snow_depth_mm |-> snow_depth.v,
                       sensor_temp_c |-> temp_c.v,
                       battery_voltage |-> battery_v.v]
                 ELSE InvalidLiteral

\* --------------------------------------------------------------- CSV files

\* A file: whether it exists, its lines (a header line or data rows) and
\* how many of them have reached the device (os.fsync).
NoFile == [exists |-> FALSE, lines |-> <<>>, synced |-> 0]

HeaderLine == [kind |-> "header"]

prefix(s, k) == SubSeq(s, 1, k)

\* The append shared by LocalStorage._save_to_root and
\* DataAggregator._save_reading, as the states the file passes through:
\* before the call; opened in append mode (created when absent); the
\* pending lines (a header when the file did not exist, then the row)
\* written one after the other; flushed and fsynced.
append_steps(file, row) ==
    LET pending == IF file.exists THEN <<row>> ELSE <<HeaderLine, row>>
    IN  <<file, [exists |-> TRUE, lines |-> file.lines, synced |-> file.synced]>>
        \o [k \in 1..Len(pending) |->
               [exists |-> TRUE,
                lines  |-> file.lines \o prefix(pending, k),
                synced |-> file.synced]]
        \o <<[exists |-> TRUE,
              lines  |-> file.lines \o pending,
              synced |-> Len(file.lines) + Len(pending)]>>

\* err = 0: the append completes; err = i > 0: an I/O error is raised with
\* the file left in its i-th state
append_errors == 0..4

\* the states of an append in which the process can die
append_states == 1..5

can_fail_at(file, row, err) == err < Len(append_steps(file, row))

append_row(file, row, err) ==
    LET steps == append_steps(file, row)
    IN  IF err = 0 THEN steps[Len(steps)] ELSE steps[err]

data_rows(file) == SelectSeq(file.lines, LAMBDA l : l.kind = "row")

\* ----------------------------------------------------------- ledger files

\* A storage root is a function from the names (text) of the files in it to
\* their contents.
EmptyDir == [n \in {} |-> NoFile]

file_at(dir, name) == IF name \in DOMAIN dir THEN dir[name] ELSE NoFile

put_file(dir, name, file) ==
    [n \in DOMAIN dir \cup {name} |-> IF n = name THEN file ELSE dir[n]]

unlink(dir, name) == [n \in DOMAIN dir \ {name} |-> dir[n]]

\* the characters of file names, in code-point order
NameChars == <<".", "0", "1", "2", "3", "4", "5", "6", "7", "8", "9",
               "A", "B", "_", "c", "m", "p", "s", "t", "v", "x">>

char_order(c) == CHOOSE i \in 1..Len(NameChars) : NameChars[i] = c

\* a < b for str
RECURSIVE text_less(_, _)
text_less(a, b) ==
    IF b = <<>> THEN FALSE
    ELSE IF a = <<>> THEN TRUE
    ELSE IF Head(a) = Head(b) THEN text_less(Tail(a), Tail(b))
    ELSE char_order(Head(a)) < char_order(Head(b))

\* sorted(names)
RECURSIVE sorted(_)
sorted(names) ==
    IF names = {} THEN <<>>
    ELSE LET least == CHOOSE n \in names : \A m \in names \ {n} : text_less(n, m)
         IN  <<least>> \o sorted(names \ {least})

starts_with(s, p) == Len(p) <= Len(s) /\ SubSeq(s, 1, Len(p)) = p

ends_with(s, p) == Len(p) <= Len(s) /\ SubSeq(s, Len(s) - Len(p) + 1, Len(s)) = p

CsvSuffix == <<".", "c", "s", "v">>
TmpSuffix == <<".", "t", "m", "p">>

\* root.glob(f"{station_id}_*.csv")
glob_csv(dir, station_id) ==
    { n \in DOMAIN dir :
        /\ Len(n) >= Len(station_id) + 1 + Len(CsvSuffix)
        /\ starts_with(n, station_id \o <<"_">>)
        /\ ends_with(n, CsvSuffix) }

\* Path.with_suffix: the part from the last "." on is replaced
with_suffix(name, suffix) ==
    LET dots == { i \in 2..Len(name) : name[i] = "." }
    IN  IF dots = {} THEN name \o suffix
        ELSE SubSeq(name, 1, (CHOOSE i \in dots : \A j \in dots : j <= i) - 1) \o suffix

\* date.isoformat(), reduced to its day-of-month part: all days of the
\* model lie in one month
date_text(day) == padded(day, 2)

\* a date taken from the wall-clock day the timestamp shows
utc_date_as_written(timestamp, today) == IF timestamp.valid THEN timestamp.day ELSE today

\* dt.astimezone(timezone.utc).date() of LocalStorage._date_key_from_timestamp,
\* as a day number.  A timestamp is a wall-clock day and hour with the UTC
\* offset it carries (aware) or none (naive); text that fromisoformat
\* rejects is not valid and falls back to today.
utc_date(timestamp, today) ==
    IF timestamp.valid
    THEN IF timestamp.aware
         THEN (timestamp.day * 24 + timestamp.hour - timestamp.offset) \div 24
         ELSE timestamp.day
    ELSE today

\* LocalStorage._date_key_from_timestamp
date_key_from_timestamp(timestamp, today) == date_text(utc_date(timestamp, today))

\* LocalStorage._file_for_root
file_for_root(station_id, date_key) == station_id \o <<"_">> \o date_key \o CsvSuffix

\* what csv.DictWriter writes for a value: None becomes the empty cell
EmptyCell == [kind |-> "empty"]

cell(v) == IF v = None THEN EmptyCell ELSE v

\* the row LocalStorage._save_to_root builds from data (FIELDS order)
ledger_row(data) ==
    [kind |-> "row",
     timestamp |-> data.timestamp,
     station_id |-> data.station_id,
     raw_distance_mm |-> data.raw_distance_mm,
     snow_depth_mm |-> data.snow_depth_mm,
     sensor_temp_c |-> cell(data.sensor_temp_c),
     battery_voltage |-> cell(data.battery_voltage),
     signal_quality |-> data.signal_quality,
     transmission_status |-> data.transmission_status]

\* LocalStorage._save_to_root on the directory dir
save_to_root(dir, station_id, date_key, data, err) ==
    LET name  == file_for_root(station_id, date_key)
        after == append_row(file_at(dir, name), ledger_row(data), err)
    IN  IF after.exists THEN put_file(dir, name, after) ELSE dir

\* a rotation that removes from the newest end of the listing
RECURSIVE unlink_newest(_, _, _, _, _)
unlink_newest(dir, files, max_files, fail_at, done) ==
    IF Len(files) <= max_files THEN dir
    ELSE IF fail_at = done + 1 THEN dir
    ELSE unlink_newest(unlink(dir, files[Len(files)]), SubSeq(files, 1, Len(files) - 1),
                       max_files, fail_at, done + 1)

\* LocalStorage._cleanup_old_files: files is what is left of the sorted
\* listing, done the number of files removed so far; the unlink numbered
\* fail_at raises, which ends the loop (0: none does)
RECURSIVE unlink_oldest(_, _, _, _, _)
unlink_oldest(dir, files, max_files, fail_at, done) ==
    IF Len(files) <= max_files THEN dir
    ELSE IF fail_at = done + 1 THEN dir
    ELSE unlink_oldest(unlink(dir, Head(files)), Tail(files), max_files, fail_at, done + 1)

cleanup_old_files(dir, station_id, max_files, fail_at) ==
    unlink_oldest(dir, sorted(glob_csv(dir, station_id)), max_files, fail_at, 0)

\* What the environment does to one save: the I/O faults err and fail_at for
\* the primary root, backup_err and backup_fail_at for the backup root, and
\* midnight: the UTC date changes between the two reads of
\* datetime.now() (line 195) of save_primary and mirror_to_backup.
NoFaults == [err |-> 0, fail_at |-> 0, backup_err |-> 0, backup_fail_at |-> 0,
             midnight |-> FALSE]

\* LocalStorage.save_primary on the object and the two roots; written is the
\* primary root as _save_to_root leaves it, result what is returned
save_primary(w, data, today, io) ==
    LET date_key == date_key_from_timestamp(data.timestamp, today)
        saved    == save_to_root(w.primary, w.storage.station_id, date_key, data, io.err)
    IN  IF io.err # 0
        THEN [w EXCEPT !.primary = saved, !.written = saved, !.result = FALSE]
        ELSE [w EXCEPT !.primary = cleanup_old_files(saved, w.storage.station_id,
                                                     w.storage.max_files, io.fail_at),
                       !.written = saved,
                       !.result = TRUE]

\* LocalStorage.get_backup_health
get_backup_health(s) ==
    [configured |-> s.backup_configured,
     sync_mode |-> s.backup_sync_mode,
     required |-> s.backup_required,
     ready |-> s.backup_ready,
     last_error |-> s.last_backup_error]

\* a mirror write that sets _backup_ready on success and leaves
\* _last_backup_error as it was
mirror_to_backup_keeps_error(w, data, today, io) ==
    IF ~w.storage.backup_configured THEN [w EXCEPT !.result = FALSE]
    ELSE LET now      == IF io.midnight THEN today + 1 ELSE today
             date_key == date_key_from_timestamp(data.timestamp, now)
             saved    == save_to_root(w.backup, w.storage.station_id, date_key, data,
                                      io.backup_err)
         IN  IF io.backup_err # 0
             THEN [w EXCEPT !.backup = saved,
                            !.mirror_writes = 1,
                            !.storage.backup_ready = FALSE,
                            !.storage.last_backup_error = "error",
                            !.result = FALSE]
             ELSE [w EXCEPT !.backup = cleanup_old_files(saved, w.storage.station_id,
                                                         w.storage.max_files,
                                                         io.backup_fail_at),
                            !.mirror_writes = 1,
                            !.storage.backup_ready = TRUE,
                            !.result = TRUE]

\* LocalStorage.mirror_to_backup
mirror_to_backup(w, data, today, io) ==
    IF ~w.storage.backup_configured THEN [w EXCEPT !.result = FALSE]
    ELSE LET now      == IF io.midnight THEN today + 1 ELSE today
             date_key == date_key_from_timestamp(data.timestamp, now)
             saved    == save_to_root(w.backup, w.storage.station_id, date_key, data,
                                      io.backup_err)
         IN  IF io.backup_err # 0
             THEN [w EXCEPT !.backup = saved,
                            !.mirror_writes = 1,
                            !.storage.backup_ready = FALSE,
                            !.storage.last_backup_error = "error",
                            !.result = FALSE]
             ELSE [w EXCEPT !.backup = cleanup_old_files(saved, w.storage.station_id,
                                                         w.storage.max_files,
                                                         io.backup_fail_at),
                            !.mirror_writes = 1,
                            !.storage.backup_ready = TRUE,
                            !.storage.last_backup_error = "None",
                            !.result = TRUE]

\* a save whose result is that of the mirror write
save_reading_mirror_decides(w, data, today, io) ==
    LET p == save_primary(w, data, today, io)
    IN  IF ~p.result THEN p
        ELSE IF p.storage.backup_sync_mode = "immediate" /\ p.storage.backup_configured
             THEN mirror_to_backup(p, data, today, io)
             ELSE p

\* LocalStorage.save_reading
save_reading(w, data, today, io) ==
    LET p == save_primary(w, data, today, io)
    IN  IF ~p.result THEN p
        ELSE IF p.storage.backup_sync_mode = "immediate"
             THEN [mirror_to_backup(p, data, today, io) EXCEPT !.result = TRUE]
             ELSE p

\* list(csv.DictReader(f)): the first line gives the keys of every row after
\* it, so the cells of a row can be looked up by field name only when the
\* first line is the header
dict_reader(lines) ==
    IF lines = <<>> THEN <<>>
    ELSE [i \in 1..(Len(lines) - 1) |->
             [keyed |-> Head(lines) = HeaderLine, cells |-> lines[i + 1]]]

\* get_unsent_readings, lines 118-121, on one file: the rows whose
\* transmission_status cell, looked up by name, is local_only
unsent_rows(lines) ==
    LET rows == SelectSeq(dict_reader(lines),
                          LAMBDA r : r.keyed /\ r.cells.kind = "row"
                                     /\ r.cells.transmission_status = "local_only")
    IN  [i \in 1..Len(rows) |-> rows[i].cells]

\* LocalStorage.get_unsent_readings from the i-th file of the sorted listing
\* on; the open or read of the file numbered fail_file raises (0: none
\* does), which ends the scan with what was collected
RECURSIVE unsent_from(_, _, _, _)
unsent_from(dir, files, i, fail_file) ==
    IF i > Len(files) \/ i = fail_file THEN <<>>
    ELSE unsent_rows(dir[files[i]].lines) \o unsent_from(dir, files, i + 1, fail_file)

get_unsent_readings(dir, station_id, fail_file) ==
    unsent_from(dir, sorted(glob_csv(dir, station_id)), 1, fail_file)

\* a match that takes every row not yet marked success
is_target_unless_success(row, targets) ==
    /\ row.keyed
    /\ row.cells.timestamp \in targets
    /\ row.cells.transmission_status # "success"

\* mark_as_sent, lines 138-141, on one row
is_target(row, targets) ==
    /\ row.keyed
    /\ row.cells.timestamp \in targets
    /\ row.cells.transmission_status = "local_only"

mark_row(row, targets) ==
    IF is_target(row, targets)
    THEN [row EXCEPT !.cells.transmission_status = "success"]
    ELSE row

\* writer.writeheader(); writer.writerows(rows)
written_rows(rows) == <<HeaderLine>> \o [i \in 1..Len(rows) |-> rows[i].cells]

\* a rewrite that opens the partition file itself for writing
rewrite_in_place_steps(dir, name, new_lines) ==
    <<dir>>
    \o [j \in 1..(Len(new_lines) + 1) |->
           put_file(dir, name, [exists |-> TRUE, lines |-> prefix(new_lines, j - 1),
                                synced |-> 0])]
    \o <<put_file(dir, name, [exists |-> TRUE, lines |-> new_lines,
                              synced |-> Len(new_lines)])>>
    \o <<put_file(dir, name, [exists |-> TRUE, lines |-> new_lines,
                              synced |-> Len(new_lines)])>>

\* mark_as_sent, lines 144-151, as the states the directory passes through:
\* before; the temporary file opened for writing (created or truncated);
\* its lines written one after the other; flushed and fsynced; moved over
\* the partition file.
rewrite_steps(dir, name, new_lines) ==
    LET tmp == with_suffix(name, TmpSuffix)
        tmp_file(k, synced) == [exists |-> TRUE, lines |-> prefix(new_lines, k),
                                synced |-> synced]
    IN  <<dir>>
        \o [j \in 1..(Len(new_lines) + 1) |-> put_file(dir, tmp, tmp_file(j - 1, 0))]
        \o <<put_file(dir, tmp, tmp_file(Len(new_lines), Len(new_lines)))>>
        \o <<put_file(unlink(dir, tmp), name, tmp_file(Len(new_lines), Len(new_lines)))>>

\* a variant that rewrites the file whether or not a row changed
mark_file_steps_always(dir, name, targets) ==
    LET rows   == dict_reader(dir[name].lines)
        marked == [i \in 1..Len(rows) |-> mark_row(rows[i], targets)]
    IN  rewrite_steps(dir, name, written_rows(marked))

\* the states the directory passes through while mark_as_sent handles the
\* file name (lines 134-151)
mark_file_steps(dir, name, targets) ==
    LET rows    == dict_reader(dir[name].lines)
        changed == \E i \in 1..Len(rows) : is_target(rows[i], targets)
        marked  == [i \in 1..Len(rows) |-> mark_row(rows[i], targets)]
    IN  IF changed THEN rewrite_steps(dir, name, written_rows(marked)) ELSE <<dir>>

\* A fault of one mark_as_sent call: while the file numbered file of the
\* sorted listing is handled, in the state numbered step, either an I/O
\* error is raised (caught at line 152, the loop goes on) or the process
\* dies.  file = 0: no fault.
NoFault == [file |-> 0, step |-> 0, crash |-> FALSE]

\* mark_as_sent, lines 132-153, from the i-th file on
RECURSIVE mark_files(_, _, _, _, _)
mark_files(dir, files, i, targets, fault) ==
    IF i > Len(files) THEN [dir |-> dir, crashed |-> FALSE]
    ELSE LET steps == mark_file_steps(dir, files[i], targets)
         IN  IF fault.file = i
             THEN IF fault.crash
                  THEN [dir |-> steps[fault.step], crashed |-> TRUE]
                  ELSE mark_files(steps[fault.step], files, i + 1, targets, fault)
             ELSE mark_files(steps[Len(steps)], files, i + 1, targets, fault)

\* the faults that can happen in this call; an error cannot be raised once
\* the file has been replaced
mark_faults(dir, files, targets) ==
    {NoFault} \cup
    UNION { LET last == Len(mark_file_steps(dir, files[i], targets))
            IN  { f \in [file : {i}, step : 1..last, crash : BOOLEAN] :
                    f.crash \/ f.step < last \/ last = 1 }
            : i \in 1..Len(files) }

\* can this fault happen in this call?
fault_possible(dir, station_id, targets, fault) ==
    \/ fault = NoFault
    \/ /\ targets # {}
       /\ LET files == sorted(glob_csv(dir, station_id))
          IN  /\ fault.file \in 1..Len(files)
              /\ LET last == Len(mark_file_steps(dir, files[fault.file], targets))
                 IN  /\ fault.step \in 1..last
                     /\ fault.crash \/ fault.step < last \/ last = 1

\* LocalStorage.mark_as_sent on the primary root
mark_as_sent(dir, station_id, targets, fault) ==
    IF targets = {} THEN [dir |-> dir, crashed |-> FALSE]
    ELSE mark_files(dir, sorted(glob_csv(dir, station_id)), 1, targets, fault)

\* ------------------------------------------------------ base-station archive

NoPacket == [kind |-> "none"]
NoData   == [kind |-> "none"]
NoDay    == -1
NoTime   == -1

utc_day(t) == t \div TicksPerDay

\* a count that starts again at 1 with every packet
count_first(counts, sid) ==
    [k \in DOMAIN counts \cup {sid} |-> IF k = sid THEN 1 ELSE counts[k]]

\* dict.get(k, 0) + 1 on station_counts
\* a variant that starts the count of a station anew with each packet
count_up_anew(counts, sid) ==
    [k \in DOMAIN counts \cup {sid} |-> IF k = sid THEN 1 ELSE counts[k]]

count_up(counts, sid) ==
    IF sid \in DOMAIN counts THEN [counts EXCEPT ![sid] = @ + 1]
    ELSE [k \in DOMAIN counts \cup {sid} |-> IF k = sid THEN 1 ELSE counts[k]]

\* a variant that keeps the file it chose first
get_current_file_kept(key, now) == IF key = NoDay THEN utc_day(now) ELSE key

\* DataAggregator._get_current_file with the clock at now: the date key
\* (and with it the file) the aggregator holds afterwards
get_current_file(key, now) == IF key # utc_day(now) THEN utc_day(now) ELSE key

\* the row DataAggregator._save_reading builds from data
archive_row(data, received_at) ==
    [kind |-> "row",
     received_at |-> received_at,
     station_id |-> data.station_id,
     timestamp |-> data.timestamp,
     raw_distance_mm |-> data.raw_distance_mm,
     snow_depth_mm |-> data.snow_depth_mm,
     sensor_temp_c |-> data.sensor_temp_c,
     battery_voltage |-> data.battery_voltage,
     rssi |-> data.rssi]

\* ------------------------------------------------------------------- state

VARIABLES
    codec_reading,   \* the reading handed to the encoder, or NoReading
    codec_message,   \* the line on the wire, or NoMessage
    codec_parsed,    \* what the decoder made of the line, or NotParsed
    \* base station (DataAggregator, LoRaReceiver, base_station/main.py)
    bs_pc,           \* "init", "loop", "exited" (sys.exit) or "raised" (uncaught exception)
    bs_running,      \* DataAggregator._running
    rx_initialized,  \* LoRaReceiver._initialized
    rx_last_error,   \* LoRaReceiver._last_error
    rx_last_rssi,    \* LoRaReceiver._last_rssi
    bs_now,          \* the base station's UTC clock, in ticks
    radio_delivered, \* packets the radio has handed over to receive() so far
    bs_packet,       \* receive(): the packet the radio handed over last, or NoPacket
    bs_data,         \* run(): data, the last result of receive(), or NoData
    current_date_key,\* DataAggregator._current_date_key (selects _current_file)
    archive,         \* the archive directory: UTC day -> base_station_<day>.csv
    total_received,
    total_saved,
    last_packet_at,
    station_counts,
    \* sensor station (SensorStation, LoRaTransmitter, LocalStorage)
    st_pc,              \* "constructed", "ready", "failed" (initialize() returned False)
                        \* or "down" (the process died)
    st_lora_ready,      \* SensorStation._lora_ready
    st_last_tx_success, \* SensorStation._last_tx_success: "None", "True" or "False"
    tx_initialized,     \* LoRaTransmitter._initialized
    tx_last_rssi,       \* LoRaTransmitter._last_rssi
    tx_last_error,      \* LoRaTransmitter._last_error
    storage,            \* the fields of the LocalStorage object
    primary,            \* the files under primary_storage_path
    backup,             \* the files under backup_storage_path
    st_calls,           \* calls made on the station so far
    st_faults,          \* I/O errors and process deaths so far
    last_call,          \* the last call: its arguments and what it returned
    saved_days,         \* date keys of the saves that returned True so far
    saves_ok,           \* every save so far returned True and the process never died
    unlinks_ok,         \* no unlink of _cleanup_old_files raised so far
    mirrors_ok,         \* no append to the backup root raised so far
    st_running,         \* SensorStation.running
    st_signalled,       \* SIGINT or SIGTERM has been delivered to the station process
    st_lag              \* run(): time.monotonic() - next_run, in ticks

codec_vars == <<codec_reading, codec_message, codec_parsed>>

bs_vars == <<bs_pc, bs_running, rx_initialized, rx_last_error, rx_last_rssi, bs_now,
             radio_delivered, bs_packet, bs_data, current_date_key, archive, total_received,
             total_saved, last_packet_at, station_counts>>

st_vars == <<st_pc, st_lora_ready, st_last_tx_success, tx_initialized, tx_last_rssi,
             tx_last_error, storage, primary, backup, st_calls, st_faults, last_call,
             saved_days, saves_ok, unlinks_ok, mirrors_ok, st_running, st_signalled,
             st_lag>>

vars == <<codec_vars, bs_vars, st_vars>>

ledger_vars == <<storage, primary, backup, saved_days, saves_ok, unlinks_ok, mirrors_ok>>

radio_vars == <<st_lora_ready, st_last_tx_success, tx_initialized, tx_last_rssi,
                tx_last_error>>

NoReading == [kind |-> "none"]
NoMessage == [kind |-> "none"]
NotParsed == [kind |-> "none"]

Wire(text) == [kind |-> "message", text |-> text]

\* ------------------------------------------------------------ codec inputs

StationIdInputs == { <<"S", "_", "1">>, <<" ", "S">>, <<"S", ",", "1">>, <<>> }
TimestampInputs == { <<"T", "0", "Z">>, <<"T", " ">>, <<"T", ",">> }
DistanceInputs  == { 1850, 0, -1 }
TempInputs      == { None, Dec(-52, 1), Dec(0, 0), Dec(-523, 2), Dec(7, 0) }
BatteryInputs   == { None, Dec(1245, 2), Dec(12456, 3), Dec(121, 1) }

ReadingInputs ==
    [ kind : {"reading"},
      station_id : StationIdInputs,
      timestamp : TimestampInputs,
      raw_distance_mm : DistanceInputs,
      snow_depth_mm : {150, -20},
      sensor_temp_c : TempInputs,
      battery_voltage : BatteryInputs ]

LineAlphabet == { ",", "1", "-", " " }

LineInputs == UNION { [1..n -> LineAlphabet] : n \in 0..MaxLineLen }

\* ---------------------------------------------------------- station inputs

\* config.station_id
StationId == <<"A">>

\* LoRaTransmitter._last_rssi = None
NoRssi == 1

\* RSSI the radio reports after a send
TxRssiInputs == { -120 }

\* a timestamp as take_reading writes it (UTC, "Z")
utc_noon(day) == [valid |-> TRUE, aware |-> TRUE, day |-> day, hour |-> 12, offset |-> 0]

\* timestamps of the readings: one at noon UTC of every day, and 23:00 at
\* UTC-5 of day 1, which is 04:00 UTC of day 2
LedgerTimestamps ==
    { utc_noon(d) : d \in 1..MaxDay }
    \cup { [valid |-> TRUE, aware |-> TRUE, day |-> 1, hour |-> 23, offset |-> -5] }

\* the status of a reading a caller hands to save_reading before any delivery
\* attempt (take_reading, line 184)
StatusInputs == { "pending" }

\* config.max_local_files (validate_config: at least 1)
MaxFilesInputs == { 2 }

\* the lists of timestamps handed to mark_as_sent
TargetInputs == { T \in SUBSET LedgerTimestamps : Cardinality(T) <= MaxTargets }

\* nothing called yet.  sends: rfm9x.send calls made; sent_ok: one of them
\* returned; appended: rows _save_to_root added to the primary partition;
\* placed: the primary files that took the row; mirror_writes: appends to
\* the backup root attempted; io, today: what the environment did to the
\* save and the UTC day it ran on; rewritten: partition files mark_as_sent
\* changed; crashed: the process died in the call; mkdir: what became of the
\* roots in LocalStorage.initialize ("none": not called; "ok"; or the root
\* that could not be created, "primary" or "backup"); unsent: the rows
\* get_unsent_readings returned; read_error: a read of it raised; config:
\* the StationConfig main() loaded; error: the exception that ended the call
NoCall == [op |-> "none", reading |-> NoReading, result |-> FALSE,
           sends |-> 0, sent_ok |-> FALSE, appended |-> 0, placed |-> {},
           mirror_writes |-> 0, io |-> NoFaults, today |-> 0, rewritten |-> 0,
           crashed |-> FALSE, mkdir |-> "none", unsent |-> <<>>, read_error |-> FALSE,
           config |-> [kind |-> "none"], error |-> "None"]

\* SensorStation.__init__, LoRaTransmitter.__init__ and LocalStorage.__init__
\* with the primary root, the station id and max_files given.  (The call in
\* SensorStation.__init__ names storage_path and config.local_storage_path,
\* which LocalStorage and StationConfig do not have; the station is taken
\* here with its storage constructed from LocalStorage's own parameters.)
st_fresh(backups, requireds) ==
    /\ st_lora_ready = FALSE
    /\ st_last_tx_success = "None"
    /\ tx_initialized = FALSE
    /\ tx_last_rssi = NoRssi
    /\ tx_last_error = "None"
    /\ storage \in [station_id : {StationId},
                    max_files : MaxFilesInputs,
                    backup_configured : backups,
                    backup_sync_mode : {"immediate"},
                    backup_required : requireds,
                    backup_ready : {FALSE},
                    last_backup_error : {"None"}]
    /\ primary = EmptyDir
    /\ backup = EmptyDir
    /\ st_calls = 0
    /\ st_faults = 0
    /\ last_call = NoCall
    /\ saved_days = {}
    /\ saves_ok = TRUE
    /\ unlinks_ok = TRUE
    /\ mirrors_ok = TRUE
    /\ st_running = FALSE
    /\ st_signalled = FALSE
    /\ st_lag = 0

st_constructed(backups, requireds) ==
    st_pc = "constructed" /\ st_fresh(backups, requireds)

\* a station without backup root
StConstructed == st_constructed({FALSE}, {FALSE})

StIdle == StConstructed

\* ------------------------------------------------------------ codec machine

\* DataAggregator.__init__ and LoRaReceiver.__init__
bs_fresh ==
    /\ bs_running = FALSE
    /\ rx_initialized = FALSE
    /\ rx_last_error = "None"
    /\ rx_last_rssi = 0
    /\ bs_now \in 0..MaxTick
    /\ radio_delivered = 0
    /\ bs_packet = NoPacket
    /\ bs_data = NoData
    /\ current_date_key = NoDay
    /\ archive = [d \in 0..utc_day(MaxTick) |-> NoFile]
    /\ total_received = 0
    /\ total_saved = 0
    /\ last_packet_at = NoTime
    /\ station_counts = << >>

BsConstructed == bs_pc = "init" /\ bs_fresh

\* the parts of the system a specification leaves idle
CodecIdle == codec_reading = NoReading /\ codec_message = NoMessage /\ codec_parsed = NotParsed

BsIdle == BsConstructed /\ bs_now = 0

CodecInit ==
    /\ BsIdle
    /\ StIdle
    /\ \/ codec_reading \in ReadingInputs /\ codec_message = NoMessage
       \/ codec_reading = NoReading /\ codec_message \in {Wire(l) : l \in LineInputs}
    /\ codec_parsed = NotParsed

\* encode: the transmitter formats the reading
Encode ==
    /\ codec_reading # NoReading
    /\ codec_message = NoMessage
    /\ codec_message' = Wire(format_message(codec_reading))
    /\ UNCHANGED <<codec_reading, codec_parsed, bs_vars, st_vars>>

\* decode: the receiver parses the line
Decode ==
    /\ codec_message # NoMessage
    /\ codec_parsed = NotParsed
    /\ codec_parsed' = parse_message(codec_message.text)
    /\ UNCHANGED <<codec_reading, codec_message, bs_vars, st_vars>>

CodecNext == Encode \/ Decode

SpecCodec == CodecInit /\ [][CodecNext]_vars

\* ----------------------------------------------------- base-station machine

SampleReading(sid, timestamp, temp, battery) ==
    [kind |-> "reading", station_id |-> sid, timestamp |-> timestamp,
     raw_distance_mm |-> 1850, snow_depth_mm |-> 150,
     sensor_temp_c |-> temp, battery_voltage |-> battery]

\* what the radio may hand over: two well-formed messages of two stations
\* with different sender timestamps, one of five fields, one of seven, one
\* with a non-numeric distance
PacketInputs ==
    { Wire(format_message(SampleReading(<<"S", "_", "1">>, <<"T", "0", "Z">>,
                                        Dec(-52, 1), Dec(1245, 2)))),
      Wire(format_message(SampleReading(<<"S", "_", "2">>, <<"T", "9", "Z">>, None, None))),
      Wire(<<"S", "_", "1", ",", "T", ",", "1", ",", "2", ",", "-">>),
      Wire(<<"S", "_", "1", ",", "T", ",", "1", ",", "2", ",", "-", ",", "-", ",", "-">>),
      Wire(<<"S", "_", "1", ",", "T", ",", "x", ",", "2", ",", "-", ",", "-">>) }

RssiInputs == { -70 }

\* _parse_message(message.strip()) of every packet the radio may hand over
\* (evaluated once)
decoded_packets == [p \in PacketInputs |-> parse_message(strip(p.text))]

\* LoRaReceiver.receive on a delivered packet: strip, parse, add rssi; the
\* ValueError of a failed parse is caught there and None returned
received(packet, rssi) ==
    LET parsed == decoded_packets[packet]
    IN  IF parsed.kind = "parsed"
        THEN [kind |-> "data",
              station_id |-> parsed.station_id,
              timestamp |-> parsed.timestamp,
              raw_distance_mm |-> parsed.raw_distance_mm,
              snow_depth_mm |-> parsed.snow_depth_mm,
              sensor_temp_c |-> parsed.sensor_temp_c,
              battery_voltage |-> parsed.battery_voltage,
              rssi |-> rssi]
        ELSE NoData


later(t) == { u \in t..(t + 1) : u <= MaxTick }

BsInit == CodecIdle /\ BsConstructed /\ StIdle

\* main(): aggregator.initialize(), then sys.exit(1) or aggregator.run()
bs_main(dir_ok, radio_ok) ==
    /\ bs_pc = "init"
    /\ IF dir_ok /\ radio_ok
       THEN /\ bs_pc' = "loop"
            /\ rx_initialized' = TRUE
            /\ rx_last_error' = "None"
            /\ bs_running' = TRUE
       ELSE /\ bs_pc' = "exited"
            /\ rx_initialized' = FALSE
            /\ rx_last_error' = IF dir_ok THEN "initialization failed" ELSE rx_last_error
            /\ bs_running' = FALSE
    /\ UNCHANGED <<rx_last_rssi, bs_now, radio_delivered, bs_packet, bs_data,
                   current_date_key, archive,
                   total_received, total_saved, last_packet_at, station_counts,
                   codec_vars, st_vars>>

\* one pass of run()'s loop in which receive() times out (packet is None)
bs_receive_timeout ==
    /\ bs_pc = "loop" /\ bs_running /\ rx_initialized
    /\ bs_now' \in later(bs_now)
    /\ bs_packet' = NoPacket
    /\ bs_data' = NoData
    /\ UNCHANGED <<bs_pc, bs_running, rx_initialized, rx_last_error, rx_last_rssi,
                   radio_delivered, current_date_key, archive, total_received, total_saved,
                   last_packet_at, station_counts, codec_vars, st_vars>>

\* one pass in which the radio driver raises inside receive()
bs_receive_error ==
    /\ bs_pc = "loop" /\ bs_running /\ rx_initialized
    /\ bs_now' \in later(bs_now)
    /\ bs_packet' = NoPacket
    /\ bs_data' = NoData
    /\ rx_last_error' = "radio error"
    /\ UNCHANGED <<bs_pc, bs_running, rx_initialized, rx_last_rssi,
                   radio_delivered, current_date_key, archive, total_received, total_saved,
                   last_packet_at, station_counts, codec_vars, st_vars>>

\* a pass in which the ValueError of _parse_message is not caught
bs_receive_malformed_uncaught(packet, rssi) ==
    /\ bs_pc = "loop" /\ bs_running /\ rx_initialized
    /\ radio_delivered < MaxPackets
    /\ received(packet, rssi) = NoData
    /\ bs_now' \in later(bs_now)
    /\ radio_delivered' = radio_delivered + 1
    /\ bs_packet' = packet
    /\ rx_last_rssi' = rssi
    /\ bs_pc' = "raised"
    /\ bs_running' = FALSE
    /\ rx_initialized' = FALSE
    /\ UNCHANGED <<rx_last_error, bs_data, current_date_key, archive, total_received,
                   total_saved, last_packet_at, station_counts, codec_vars, st_vars>>

\* one pass in which a packet arrives and _parse_message raises: receive()
\* records the error and returns None, run() continues
bs_receive_malformed(packet, rssi) ==
    /\ bs_pc = "loop" /\ bs_running /\ rx_initialized
    /\ radio_delivered < MaxPackets
    /\ received(packet, rssi) = NoData
    /\ bs_now' \in later(bs_now)
    /\ radio_delivered' = radio_delivered + 1
    /\ bs_packet' = packet
    /\ rx_last_rssi' = rssi
    /\ rx_last_error' = decoded_packets[packet].error
    /\ bs_data' = NoData
    /\ UNCHANGED <<bs_pc, bs_running, rx_initialized,
                   current_date_key, archive, total_received, total_saved,
                   last_packet_at, station_counts, codec_vars, st_vars>>

\* one pass in which a packet arrives and decodes: _process_reading stamps
\* it at t1, counts it, and _save_reading appends it to the file of the day
\* read at t2; an I/O error there leaves run() through its finally clause
bs_process_reading(packet, rssi, t1, t2, err) ==
    /\ bs_pc = "loop" /\ bs_running /\ rx_initialized
    /\ radio_delivered < MaxPackets
    /\ received(packet, rssi) # NoData
    /\ t1 \in later(bs_now) /\ t2 \in later(t1)
    /\ \E data \in {received(packet, rssi)} : \E row \in {archive_row(data, t1)} :
       LET date_key == get_current_file(current_date_key, t2)
       IN  /\ can_fail_at(archive[date_key], row, err)
           /\ radio_delivered' = radio_delivered + 1
           /\ bs_packet' = packet
           /\ rx_last_rssi' = rssi
           /\ bs_data' = data
           /\ total_received' = total_received + 1
           /\ last_packet_at' = t1
           /\ station_counts' = count_up(station_counts, data.station_id)
           /\ current_date_key' = date_key
           /\ archive' = [archive EXCEPT ![date_key] = append_row(@, row, err)]
           /\ bs_now' = t2
           /\ IF err = 0
              THEN /\ total_saved' = total_saved + 1
                   /\ UNCHANGED <<bs_pc, bs_running, rx_initialized>>
              ELSE /\ total_saved' = total_saved
                   /\ bs_pc' = "raised"
                   /\ bs_running' = FALSE
                   /\ rx_initialized' = FALSE
    /\ UNCHANGED <<rx_last_error, codec_vars, st_vars>>

\* _handle_signal on SIGINT/SIGTERM: aggregator.cleanup(), sys.exit(0)
bs_handle_signal ==
    /\ bs_pc \in {"init", "loop"}
    /\ bs_pc' = "exited"
    /\ bs_running' = FALSE
    /\ rx_initialized' = FALSE
    /\ UNCHANGED <<rx_last_error, rx_last_rssi, bs_now, radio_delivered, bs_packet, bs_data,
                   current_date_key, archive, total_received, total_saved,
                   last_packet_at, station_counts, codec_vars, st_vars>>

BsNext ==
    \/ \E dir_ok, radio_ok \in BOOLEAN : bs_main(dir_ok, radio_ok)
    \/ bs_receive_timeout
    \/ bs_receive_error
    \/ \E packet \in PacketInputs, rssi \in RssiInputs : bs_receive_malformed(packet, rssi)
    \/ \E packet \in PacketInputs, rssi \in RssiInputs :
          \E t1 \in later(bs_now) : \E t2 \in later(t1), err \in append_errors :
             bs_process_reading(packet, rssi, t1, t2, err)
    \/ bs_handle_signal

SpecBase == BsInit /\ [][BsNext]_vars

\* --------------------------------------------------------- station machine

\* int(x / y) for y > 0: truncation towards zero
trunc_div(x, y) == IF x >= 0 THEN x \div y ELSE -((-x) \div y)

\* LoRaTransmitter.get_signal_quality
get_signal_quality(last_rssi) ==
    IF last_rssi = NoRssi THEN 0
    ELSE LET quality == trunc_div((last_rssi + 120) * 100, 90)
         IN  IF quality < 0 THEN 0 ELSE IF quality > 100 THEN 100 ELSE quality

\* SensorStation.take_reading when the ultrasonic sensor answers
take_reading(timestamp) ==
    [kind |-> "reading",
     timestamp |-> timestamp,
     station_id |-> StationId,
     raw_distance_mm |-> 1850,
     snow_depth_mm |-> 150,
     sensor_temp_c |-> None,
     battery_voltage |-> None,
     signal_quality |-> IF st_lora_ready THEN get_signal_quality(tx_last_rssi) ELSE 0,
     transmission_status |-> "pending"]

\* a variant of transmit that reports success whatever the radio did
transmit_unchecked(send_ok, rssi) ==
    IF ~tx_initialized
    THEN [ok |-> TRUE, sends |-> 0, delivered |-> FALSE, last_rssi |-> tx_last_rssi,
          last_error |-> "LoRa not initialized"]
    ELSE [ok |-> TRUE, sends |-> 1, delivered |-> send_ok,
          last_rssi |-> IF send_ok THEN rssi ELSE tx_last_rssi,
          last_error |-> IF send_ok THEN tx_last_error ELSE "send failed"]

\* LoRaTransmitter.transmit: what it returns (ok), how often the radio was
\* asked to send, whether a send returned (delivered), and the fields it
\* leaves
transmit(send_ok, rssi) ==
    IF ~tx_initialized
    THEN [ok |-> FALSE, sends |-> 0, delivered |-> FALSE, last_rssi |-> tx_last_rssi,
          last_error |-> "LoRa not initialized"]
    ELSE IF send_ok
    THEN [ok |-> TRUE, sends |-> 1, delivered |-> TRUE, last_rssi |-> rssi,
          last_error |-> tx_last_error]
    ELSE [ok |-> FALSE, sends |-> 1, delivered |-> FALSE, last_rssi |-> tx_last_rssi,
          last_error |-> "send failed"]

\* no call of transmit
NoDelivery ==
    [ok |-> FALSE, sends |-> 0, delivered |-> FALSE, last_rssi |-> tx_last_rssi,
     last_error |-> tx_last_error]

\* self._lora_ready and self.lora.transmit(reading)
delivery(send_ok, rssi) == IF st_lora_ready THEN transmit(send_ok, rssi) ELSE NoDelivery

\* the ledger object and its roots before a call; written: the primary root
\* as _save_to_root leaves it; mirror_writes: appends to the backup root
\* attempted; result: what the call returns
world == [storage |-> storage, primary |-> primary, backup |-> backup,
          written |-> primary, mirror_writes |-> 0, result |-> FALSE]

occurrences(row, file) == Cardinality({ i \in 1..Len(file.lines) : file.lines[i] = row })

target_name(data, today) ==
    file_for_root(storage.station_id, date_key_from_timestamp(data.timestamp, today))

\* rows equal to the reading's that a save added to its partition file
\* before rotation
appended_rows(w, data, today) ==
    LET name == target_name(data, today)
    IN  occurrences(ledger_row(data), file_at(w.written, name))
        - occurrences(ledger_row(data), file_at(primary, name))

\* the primary files to which _save_to_root added the reading's row
placed_in(w, data) ==
    { n \in DOMAIN w.written :
        occurrences(ledger_row(data), w.written[n])
            > occurrences(ledger_row(data), file_at(primary, n)) }

\* has the partition file of this reading room for one more row?
has_room(data, today) ==
    Len(data_rows(file_at(primary, target_name(data, today)))) < MaxRows

\* the files _cleanup_old_files sets out to remove once the reading's
\* partition file is in the directory
excess_after(dir, name, station_id, max_files) ==
    LET n == Cardinality(glob_csv(dir, station_id) \cup {name})
    IN  IF n > max_files THEN n - max_files ELSE 0

\* the states a completed append passes through
append_length(file) == Len(append_steps(file, HeaderLine))

\* can these faults happen in this save?
io_possible(data, today, io) ==
    LET name == target_name(data, today)
    IN  /\ io.err < append_length(file_at(primary, name))
        /\ io.fail_at <= (IF io.err = 0
                          THEN excess_after(primary, name, storage.station_id,
                                            storage.max_files)
                          ELSE 0)
        /\ IF storage.backup_configured /\ storage.backup_sync_mode = "immediate"
              /\ io.err = 0
           THEN LET now   == IF io.midnight THEN today + 1 ELSE today
                    bname == target_name(data, now)
                IN  /\ io.midnight => ~data.timestamp.valid
                    /\ io.backup_err < append_length(file_at(backup, bname))
                    /\ io.backup_fail_at <= (IF io.backup_err = 0
                                             THEN excess_after(backup, bname,
                                                               storage.station_id,
                                                               storage.max_files)
                                             ELSE 0)
           ELSE io.backup_err = 0 /\ io.backup_fail_at = 0 /\ ~io.midnight

\* What the environment can do to this save.  err: the state of the
\* append (append_steps) in which an error is raised; fail_at: the unlink
\* of _cleanup_old_files that raises; 0: none.  backup_err and
\* backup_fail_at: the same for the backup root.
save_faults(data, today) ==
    LET name     == target_name(data, today)
        mirrored == storage.backup_configured /\ storage.backup_sync_mode = "immediate"
        errs     == 1..(append_length(file_at(primary, name)) - 1)
        excess   == excess_after(primary, name, storage.station_id, storage.max_files)
        nows     == IF mirrored /\ ~data.timestamp.valid THEN {today, today + 1}
                    ELSE {today}
        mirror(now) ==
            LET bname == target_name(data, now)
            IN  IF ~mirrored THEN { <<0, 0>> }
                ELSE { <<e, 0>> : e \in 0..(append_length(file_at(backup, bname)) - 1) }
                     \cup { <<0, f>> : f \in 0..excess_after(backup, bname,
                                                             storage.station_id,
                                                             storage.max_files) }
    IN  { [NoFaults EXCEPT !.err = e] : e \in errs }
        \cup UNION { { [err |-> 0, fail_at |-> f, backup_err |-> m[1],
                        backup_fail_at |-> m[2], midnight |-> now # today] :
                          f \in 0..excess, m \in mirror(now) } : now \in nows }

todays(timestamp) == IF timestamp.valid THEN {1} ELSE 1..MaxDay

\* one more call in this run, with or without a fault
counted(io) ==
    /\ st_calls' = st_calls + 1
    /\ io = NoFaults \/ st_faults < MaxFaults
    /\ st_faults' = IF io = NoFaults THEN st_faults ELSE st_faults + 1

\* what a save leaves in the variables of the ledger
ledger_effect(w, data, today, io, op, tx) ==
    /\ storage' = w.storage
    /\ primary' = w.primary
    /\ backup' = w.backup
    /\ last_call' = [NoCall EXCEPT !.op = op, !.reading = data, !.result = w.result,
                                   !.sends = tx.sends, !.sent_ok = tx.delivered,
                                   !.appended = appended_rows(w, data, today),
                                   !.placed = placed_in(w, data),
                                   !.mirror_writes = w.mirror_writes,
                                   !.io = io, !.today = today]
    /\ saved_days' = IF w.result
                     THEN saved_days \cup {utc_date(data.timestamp, today)}
                     ELSE saved_days
    /\ saves_ok' = (saves_ok /\ w.result)
    /\ unlinks_ok' = (unlinks_ok /\ io.fail_at = 0)
    /\ mirrors_ok' = (mirrors_ok /\ io.backup_err = 0)

\* a save made as one of the calls of a run
stored(w, data, today, io, op, tx) == ledger_effect(w, data, today, io, op, tx) /\ counted(io)

\* the station's loop is running and the run goes on
st_serving == st_pc = "ready" /\ st_calls < MaxCalls

\* an initialize that lets the station start whatever became of the backup root
storage_initialize_lenient(s, primary_ok, backup_ok) ==
    IF ~primary_ok THEN [storage |-> s, result |-> FALSE, mkdir |-> "primary"]
    ELSE IF ~s.backup_configured
    THEN [storage |-> [s EXCEPT !.backup_ready = FALSE], result |-> TRUE, mkdir |-> "ok"]
    ELSE IF backup_ok
    THEN [storage |-> [s EXCEPT !.backup_ready = TRUE, !.last_backup_error = "None"],
          result |-> TRUE, mkdir |-> "ok"]
    ELSE [storage |-> [s EXCEPT !.backup_ready = FALSE, !.last_backup_error = "error"],
          result |-> TRUE, mkdir |-> "backup"]

\* an initialize that fails whenever the backup root cannot be created
storage_initialize_strict(s, primary_ok, backup_ok) ==
    IF ~primary_ok THEN [storage |-> s, result |-> FALSE, mkdir |-> "primary"]
    ELSE IF ~s.backup_configured
    THEN [storage |-> [s EXCEPT !.backup_ready = FALSE], result |-> TRUE, mkdir |-> "ok"]
    ELSE IF backup_ok
    THEN [storage |-> [s EXCEPT !.backup_ready = TRUE, !.last_backup_error = "None"],
          result |-> TRUE, mkdir |-> "ok"]
    ELSE [storage |-> [s EXCEPT !.backup_ready = FALSE, !.last_backup_error = "error"],
          result |-> FALSE, mkdir |-> "backup"]

\* LocalStorage.initialize: primary_ok and backup_ok say whether the mkdir of
\* the root succeeds; the fields it leaves, what it returns, and which root
\* could not be created
storage_initialize(s, primary_ok, backup_ok) ==
    IF ~primary_ok THEN [storage |-> s, result |-> FALSE, mkdir |-> "primary"]
    ELSE IF ~s.backup_configured
    THEN [storage |-> [s EXCEPT !.backup_ready = FALSE], result |-> TRUE, mkdir |-> "ok"]
    ELSE IF backup_ok
    THEN [storage |-> [s EXCEPT !.backup_ready = TRUE, !.last_backup_error = "None"],
          result |-> TRUE, mkdir |-> "ok"]
    ELSE [storage |-> [s EXCEPT !.backup_ready = FALSE, !.last_backup_error = "error"],
          result |-> ~s.backup_required, mkdir |-> "backup"]

\* SensorStation.initialize
st_initialize(sensor_ok, lora_ok, primary_ok, backup_ok) ==
    /\ st_pc = "constructed"
    /\ IF ~sensor_ok
       THEN /\ st_pc' = "failed"
            /\ last_call' = [NoCall EXCEPT !.op = "initialize"]
            /\ UNCHANGED <<st_lora_ready, tx_initialized, tx_last_error, storage>>
       ELSE LET init == storage_initialize(storage, primary_ok, backup_ok)
            IN  /\ st_lora_ready' = lora_ok
                /\ tx_initialized' = lora_ok
                /\ tx_last_error' = IF lora_ok THEN "None" ELSE "initialization failed"
                /\ st_pc' = IF init.result THEN "ready" ELSE "failed"
                /\ storage' = init.storage
                /\ last_call' = [NoCall EXCEPT !.op = "initialize", !.result = init.result,
                                               !.mkdir = init.mkdir]
    /\ UNCHANGED <<st_last_tx_success, tx_last_rssi, primary, backup, st_calls, st_faults,
                   saved_days, saves_ok, unlinks_ok, mirrors_ok, st_running,
                   st_signalled, st_lag, codec_vars, bs_vars>>

\* SensorStation.transmit_and_store on the reading taken at timestamp
transmit_and_store(timestamp, send_ok, rssi, today, io) ==
    \E tx \in {delivery(send_ok, rssi)} :
    \E reading \in {[take_reading(timestamp) EXCEPT
                       !.transmission_status = IF tx.ok THEN "success" ELSE "local_only",
                       !.signal_quality = IF st_lora_ready
                                          THEN get_signal_quality(tx.last_rssi) ELSE 0]} :
        /\ io_possible(reading, today, io)
        /\ st_last_tx_success' = IF tx.ok THEN "True" ELSE "False"
        /\ tx_last_rssi' = tx.last_rssi
        /\ tx_last_error' = tx.last_error
        /\ \E w \in {save_reading(world, reading, today, io)} :
              ledger_effect(w, reading, today, io, "transmit_and_store", tx)

\* one pass of run(): take_reading, then transmit_and_store
st_transmit_and_store(timestamp, send_ok, rssi, today, io) ==
    /\ st_serving
    /\ has_room(take_reading(timestamp), today)
    /\ transmit_and_store(timestamp, send_ok, rssi, today, io)
    /\ counted(io)
    /\ UNCHANGED <<st_pc, st_lora_ready, tx_initialized, st_running, st_signalled,
                   st_lag, codec_vars, bs_vars>>

\* a caller's reading handed to LocalStorage.save_reading
caller_reading(timestamp, status) ==
    [take_reading(timestamp) EXCEPT !.transmission_status = status, !.signal_quality = 0]

\* LocalStorage.save_reading called directly
ls_save_reading(timestamp, status, today, io) ==
    /\ st_serving
    /\ LET reading == caller_reading(timestamp, status)
       IN  /\ has_room(reading, today)
           /\ io_possible(reading, today, io)
           /\ stored(save_reading(world, reading, today, io), reading, today, io,
                     "save_reading", NoDelivery)
    /\ UNCHANGED <<st_pc, st_lora_ready, st_last_tx_success, tx_initialized, tx_last_rssi,
                   tx_last_error, st_running, st_signalled, st_lag, codec_vars, bs_vars>>

\* the process dies inside _save_to_root, the partition file being in the
\* state numbered step of the append
ls_save_reading_crash(timestamp, status, today, step) ==
    /\ st_serving
    /\ LET reading == caller_reading(timestamp, status)
           name    == target_name(reading, today)
           steps   == append_steps(file_at(primary, name), ledger_row(reading))
       IN  /\ Len(data_rows(file_at(primary, name))) < MaxRows
           /\ step \in 1..Len(steps)
           /\ primary' = IF steps[step].exists THEN put_file(primary, name, steps[step])
                         ELSE primary
           /\ last_call' = [NoCall EXCEPT !.op = "save_reading", !.reading = reading,
                                          !.crashed = TRUE]
    /\ st_pc' = "down"
    /\ st_calls' = st_calls + 1
    /\ st_faults < MaxFaults
    /\ st_faults' = st_faults + 1
    /\ saves_ok' = FALSE
    /\ UNCHANGED <<st_lora_ready, st_last_tx_success, tx_initialized, tx_last_rssi,
                   tx_last_error, storage, backup, saved_days, unlinks_ok, mirrors_ok,
                   st_running, st_signalled, st_lag, codec_vars, bs_vars>>

\* a mark_as_sent that marks the rows of the backup root as well
ls_mark_as_sent_mirrored(targets, fault) ==
    /\ st_serving
    /\ fault_possible(primary, storage.station_id, targets, fault)
    /\ LET done == mark_as_sent(primary, storage.station_id, targets, fault)
       IN  /\ primary' = done.dir
           /\ backup' = mark_as_sent(backup, storage.station_id, targets, NoFault).dir
           /\ st_pc' = IF done.crashed THEN "down" ELSE st_pc
           /\ saves_ok' = (saves_ok /\ ~done.crashed)
           /\ last_call' = [NoCall EXCEPT
                               !.op = "mark_as_sent",
                               !.rewritten = Cardinality({ n \in DOMAIN primary :
                                                 /\ n \in DOMAIN done.dir
                                                 /\ done.dir[n].lines # primary[n].lines }),
                               !.crashed = done.crashed]
    /\ st_calls' = st_calls + 1
    /\ fault = NoFault \/ st_faults < MaxFaults
    /\ st_faults' = IF fault = NoFault THEN st_faults ELSE st_faults + 1
    /\ UNCHANGED <<st_lora_ready, st_last_tx_success, tx_initialized, tx_last_rssi,
                   tx_last_error, storage, saved_days, unlinks_ok, mirrors_ok,
                   st_running, st_signalled, st_lag, codec_vars, bs_vars>>

\* LocalStorage.mark_as_sent(timestamps), run to its end or to the point
\* where the process dies
ls_mark_as_sent(targets, fault) ==
    /\ st_serving
    /\ fault_possible(primary, storage.station_id, targets, fault)
    /\ LET done == mark_as_sent(primary, storage.station_id, targets, fault)
       IN  /\ primary' = done.dir
           /\ st_pc' = IF done.crashed THEN "down" ELSE st_pc
           /\ saves_ok' = (saves_ok /\ ~done.crashed)
           /\ last_call' = [NoCall EXCEPT
                               !.op = "mark_as_sent",
                               !.rewritten = Cardinality({ n \in DOMAIN primary :
                                                 /\ n \in DOMAIN done.dir
                                                 /\ done.dir[n].lines # primary[n].lines }),
                               !.crashed = done.crashed]
    /\ st_calls' = st_calls + 1
    /\ fault = NoFault \/ st_faults < MaxFaults
    /\ st_faults' = IF fault = NoFault THEN st_faults ELSE st_faults + 1
    /\ UNCHANGED <<st_lora_ready, st_last_tx_success, tx_initialized, tx_last_rssi,
                   tx_last_error, storage, backup, saved_days, unlinks_ok, mirrors_ok,
                   st_running, st_signalled, st_lag, codec_vars, bs_vars>>

\* LocalStorage.get_unsent_readings()
ls_get_unsent_readings(fail_file) ==
    /\ st_serving
    /\ fail_file \in 0..Cardinality(glob_csv(primary, storage.station_id))
    /\ last_call' = [NoCall EXCEPT
                        !.op = "get_unsent_readings",
                        !.unsent = get_unsent_readings(primary, storage.station_id,
                                                       fail_file),
                        !.read_error = (fail_file # 0)]
    /\ st_calls' = st_calls + 1
    /\ fail_file = 0 \/ st_faults < MaxFaults
    /\ st_faults' = IF fail_file = 0 THEN st_faults ELSE st_faults + 1
    /\ UNCHANGED <<st_pc, radio_vars, ledger_vars, st_running, st_signalled,
                   st_lag, codec_vars, bs_vars>>

\* the power fails while the process is down: a file keeps what was fsynced
\* and any part of what was written after; a file never fsynced may be gone
st_power_loss(name, kept, gone) ==
    /\ st_pc = "down"
    /\ name \in DOMAIN primary
    /\ kept \in primary[name].synced..Len(primary[name].lines)
    /\ IF gone
       THEN primary[name].synced = 0 /\ kept = 0 /\ primary' = unlink(primary, name)
       ELSE /\ kept < Len(primary[name].lines) \/ primary[name].synced < kept
            /\ primary' = [primary EXCEPT ![name] =
                             [exists |-> TRUE, lines |-> prefix(@.lines, kept),
                              synced |-> kept]]
    /\ last_call' = [NoCall EXCEPT !.op = "power_loss"]
    /\ UNCHANGED <<st_pc, st_lora_ready, st_last_tx_success, tx_initialized, tx_last_rssi,
                   tx_last_error, storage, backup, st_calls, st_faults, saved_days,
                   saves_ok, unlinks_ok, mirrors_ok, st_running, st_signalled,
                   st_lag, codec_vars, bs_vars>>

\* the process is started again: the objects are constructed anew, the
\* files are what they were
st_restart ==
    /\ st_pc = "down"
    /\ st_pc' = "constructed"
    /\ st_lora_ready' = FALSE
    /\ st_last_tx_success' = "None"
    /\ tx_initialized' = FALSE
    /\ tx_last_rssi' = NoRssi
    /\ tx_last_error' = "None"
    /\ storage' = [storage EXCEPT !.backup_ready = FALSE, !.last_backup_error = "None"]
    /\ last_call' = [NoCall EXCEPT !.op = "restart"]
    /\ UNCHANGED <<primary, backup, st_calls, st_faults, saved_days, saves_ok,
                   unlinks_ok, mirrors_ok, st_running, st_signalled, st_lag, codec_vars, bs_vars>>

StInit == CodecIdle /\ BsIdle /\ StConstructed

StNext ==
    \/ \E sensor_ok, lora_ok, primary_ok, backup_ok \in BOOLEAN :
          st_initialize(sensor_ok, lora_ok, primary_ok, backup_ok)
    \/ /\ st_serving
       /\ \E timestamp \in LedgerTimestamps, send_ok \in BOOLEAN, rssi \in TxRssiInputs :
             \E today \in todays(timestamp) :
                \E io \in save_faults(take_reading(timestamp), today) :
                   st_transmit_and_store(timestamp, send_ok, rssi, today, io)
    \/ /\ st_serving
       /\ \E timestamp \in LedgerTimestamps, status \in StatusInputs :
             \E today \in todays(timestamp) :
                \E io \in save_faults(take_reading(timestamp), today) :
                   ls_save_reading(timestamp, status, today, io)
    \/ /\ st_serving
       /\ \E timestamp \in LedgerTimestamps, status \in StatusInputs :
             \E today \in todays(timestamp), step \in append_states :
                ls_save_reading_crash(timestamp, status, today, step)
    \/ /\ st_serving
       /\ LET files == sorted(glob_csv(primary, storage.station_id))
          IN  \E targets \in TargetInputs :
                 \E fault \in (IF targets = {} THEN {NoFault}
                               ELSE mark_faults(primary, files, targets)) :
                    ls_mark_as_sent(targets, fault)
    \/ \E fail_file \in 0..Cardinality(glob_csv(primary, storage.station_id)) :
          ls_get_unsent_readings(fail_file)
    \/ /\ st_pc = "down"
       /\ \E name \in DOMAIN primary :
             \E kept \in 0..Len(primary[name].lines), gone \in BOOLEAN :
                st_power_loss(name, kept, gone)
    \/ st_restart

Spec == StInit /\ [][StNext]_vars

\* ------------------------------------------------- ledger with backup root

\* timestamps handed to save_reading: noon UTC of days 1 and 2; 12:00 of
\* day 2 without offset; 23:00 at UTC-5 of day 1 (04:00 UTC of day 2); 01:00
\* at UTC+2 of day 2 (23:00 UTC of day 1); and text that fromisoformat rejects
MirrorTimestamps ==
    { utc_noon(1), utc_noon(2),
      [valid |-> TRUE, aware |-> FALSE, day |-> 2, hour |-> 12, offset |-> 0],
      [valid |-> TRUE, aware |-> TRUE, day |-> 1, hour |-> 23, offset |-> -5],
      [valid |-> TRUE, aware |-> TRUE, day |-> 2, hour |-> 1, offset |-> 2],
      [valid |-> FALSE, aware |-> FALSE, day |-> 0, hour |-> 0, offset |-> 0] }

\* stations with and without a backup root, required or not
MirrorInit == CodecIdle /\ BsIdle /\ st_constructed(BOOLEAN, BOOLEAN)

MirrorNext ==
    \/ \E sensor_ok, primary_ok, backup_ok \in BOOLEAN :
          st_initialize(sensor_ok, FALSE, primary_ok, backup_ok)
    \/ /\ st_serving
       /\ \E timestamp \in MirrorTimestamps, status \in StatusInputs :
             \E today \in todays(timestamp) :
                \E io \in save_faults(take_reading(timestamp), today) :
                   ls_save_reading(timestamp, status, today, io)

SpecMirror == MirrorInit /\ [][MirrorNext]_vars

\* ------------------------------------------------------------ station loop

\* The station process of sensor/main.py step by step.  st_pc goes from
\* "ready" (initialize() returned True) to "top" (the test of the outer
\* while), "reading" (take_reading), "deliver" (transmit_and_store),
\* "sleep" (the inner while), back to "top", and to "cleanup" and "exited"
\* once run() has returned.

\* the readings of the loop are stamped at noon UTC of day 1
RunTimestamps == { utc_noon(1) }

\* a variant in which a failed save leaves the loop
after_save_reading_raising(saved) == IF saved THEN "sleep" ELSE "raised"

\* transmit_and_store after save_reading has returned: a False is logged as
\* CRITICAL and the call returns like any other
after_save_reading(saved) == "sleep"

\* what the disk does to a save of the loop: any fault of save_faults while
\* the partition file has room, and an open that fails once it is full
run_faults(data, today) ==
    IF has_room(data, today) THEN save_faults(data, today)
    ELSE { [NoFaults EXCEPT !.err = 1] }

\* main() calls station.run(): self.running = True
run_enter ==
    /\ st_pc = "ready"
    /\ st_pc' = "top"
    /\ st_running' = TRUE
    /\ last_call' = [NoCall EXCEPT !.op = "run"]
    /\ st_lag' = 0
    /\ UNCHANGED <<radio_vars, ledger_vars, st_calls, st_faults, st_signalled,
                   codec_vars, bs_vars>>

\* while self.running: (the outer loop)
run_test ==
    /\ st_pc = "top"
    /\ st_pc' = IF st_running THEN "reading" ELSE "cleanup"
    /\ UNCHANGED <<radio_vars, ledger_vars, st_calls, st_faults, last_call, st_running,
                   st_signalled, st_lag, codec_vars, bs_vars>>

\* reading = self.take_reading(): a reading, or None (or an exception that
\* run() catches and logs) when the sensor gives no distance
run_take_reading(timestamp, sensor_ok, elapsed) ==
    /\ st_pc = "reading"
    /\ st_lag' = st_lag + elapsed
    /\ st_pc' = IF sensor_ok THEN "deliver" ELSE "sleep"
    /\ last_call' = [NoCall EXCEPT !.op = "take_reading",
                                   !.reading = IF sensor_ok THEN take_reading(timestamp)
                                               ELSE NoReading]
    /\ UNCHANGED <<radio_vars, ledger_vars, st_calls, st_faults, st_running,
                   st_signalled, codec_vars, bs_vars>>

\* self.transmit_and_store(reading)
run_transmit_and_store(send_ok, rssi, today, io, elapsed) ==
    /\ st_pc = "deliver"
    /\ st_lag' = st_lag + elapsed
    /\ transmit_and_store(last_call.reading.timestamp, send_ok, rssi, today, io)
    /\ st_pc' = after_save_reading(last_call'.result)
    /\ UNCHANGED <<st_lora_ready, tx_initialized, st_calls, st_faults, st_running,
                   st_signalled, codec_vars, bs_vars>>

\* config.measurement_interval_seconds, in ticks
Interval == 2

\* a loop bottom that never moves the anchor
anchor_kept(lag) == lag

\* lines 254-256: if the clock is more than one interval past next_run,
\* next_run is set to the clock
anchor(lag) == IF lag > Interval THEN 0 ELSE lag

\* lines 247-256: next_run += interval; the inner while, left at once when
\* running is False or the tick is due, and else slept through until the
\* tick is due, elapsed ticks passing on top of that; then the anchor
run_wait(elapsed) ==
    /\ st_pc = "sleep"
    /\ st_pc' = "top"
    /\ LET due == st_lag - Interval
       IN  st_lag' = anchor((IF st_running /\ due < 0 THEN 0 ELSE due) + elapsed)
    /\ UNCHANGED <<radio_vars, ledger_vars, st_calls, st_faults, last_call, st_running,
                   st_signalled, codec_vars, bs_vars>>

\* main(): finally: station.cleanup()
run_cleanup ==
    /\ st_pc = "cleanup"
    /\ st_pc' = "exited"
    /\ tx_initialized' = FALSE
    /\ last_call' = [NoCall EXCEPT !.op = "cleanup"]
    /\ UNCHANGED <<st_lora_ready, st_last_tx_success, tx_last_rssi, tx_last_error,
                   ledger_vars, st_calls, st_faults, st_running, st_signalled,
                   st_lag, codec_vars, bs_vars>>

\* SIGINT or SIGTERM once main() has installed signal_handler, which it
\* does before initialize(): station.stop() sets running = False
st_signal ==
    /\ st_pc \in {"constructed", "ready", "top", "reading", "deliver", "sleep", "cleanup"}
    /\ st_running' = FALSE
    /\ st_signalled' = TRUE
    /\ UNCHANGED <<st_pc, radio_vars, ledger_vars, st_calls, st_faults, last_call,
                   st_lag, codec_vars, bs_vars>>

\* the steps the station process takes by itself, each call taking one of
\* the given numbers of ticks
RunSteps(elapsed_ticks) ==
    \/ \E sensor_ok, lora_ok, primary_ok \in BOOLEAN :
          st_initialize(sensor_ok, lora_ok, primary_ok, TRUE)
    \/ run_enter
    \/ run_test
    \/ \E timestamp \in RunTimestamps, sensor_ok \in BOOLEAN, elapsed \in elapsed_ticks :
          run_take_reading(timestamp, sensor_ok, elapsed)
    \/ /\ st_pc = "deliver"
       /\ \E send_ok \in BOOLEAN, rssi \in TxRssiInputs, elapsed \in elapsed_ticks :
             \E today \in todays(last_call.reading.timestamp) :
                \E io \in run_faults(last_call.reading, today) :
                   run_transmit_and_store(send_ok, rssi, today, io, elapsed)
    \/ \E elapsed \in elapsed_ticks : run_wait(elapsed)
    \/ run_cleanup

\* the same with the passing of time left aside: every call takes no time
\* and every sleep ends on its tick
RunStep == RunSteps({0})

RunInit == CodecIdle /\ BsIdle /\ StConstructed

RunNext == RunStep \/ st_signal

SpecRun == RunInit /\ [][RunNext]_vars

\* the process keeps being scheduled: a step of it that stays possible is
\* taken in the end (every sleep of the inner while ends)
SpecRunLive == SpecRun /\ WF_vars(RunStep)

\* the station loop with the clock: calls take up to MaxElapsed ticks
ScheduleNext == RunSteps(0..MaxElapsed) \/ st_signal

SpecSchedule == RunInit /\ [][ScheduleNext]_vars

\* ----------------------------------------------------- signals and cleanup

\* The receive loop of DataAggregator.run step by step.  bs_pc goes from
\* "loop" (the test of the while) to "receive" (in receiver.receive),
\* "process" (in _process_reading, before _save_reading) and "append" (in
\* _save_reading), and back to "loop"; "handler" is _handle_signal between
\* its two statements.

\* while self._running: and, once it is false, finally: self.cleanup()
bs_run_test ==
    /\ bs_pc = "loop"
    /\ IF bs_running
       THEN bs_pc' = "receive" /\ UNCHANGED rx_initialized
       ELSE bs_pc' = "exited" /\ rx_initialized' = FALSE
    /\ UNCHANGED <<bs_running, rx_last_error, rx_last_rssi, bs_now, radio_delivered,
                   bs_packet, bs_data, current_date_key, archive, total_received,
                   total_saved, last_packet_at, station_counts, codec_vars, st_vars>>

\* data = self.receiver.receive(timeout=1.0) with no packet within the timeout
bs_run_receive_none ==
    /\ bs_pc = "receive" /\ rx_initialized
    /\ bs_now' \in later(bs_now)
    /\ bs_packet' = NoPacket
    /\ bs_data' = NoData
    /\ bs_pc' = "loop"
    /\ UNCHANGED <<bs_running, rx_initialized, rx_last_error, rx_last_rssi,
                   radio_delivered, current_date_key, archive, total_received, total_saved,
                   last_packet_at, station_counts, codec_vars, st_vars>>

\* data = self.receiver.receive(timeout=1.0) with a packet: parsed, or its
\* error recorded and None returned
bs_run_receive(packet, rssi) ==
    /\ bs_pc = "receive" /\ rx_initialized
    /\ radio_delivered < MaxPackets
    /\ radio_delivered' = radio_delivered + 1
    /\ bs_packet' = packet
    /\ rx_last_rssi' = rssi
    /\ \E data \in {received(packet, rssi)} :
          /\ bs_data' = data
          /\ bs_pc' = IF data = NoData THEN "loop" ELSE "process"
          /\ rx_last_error' = IF data = NoData THEN decoded_packets[packet].error
                              ELSE rx_last_error
    /\ UNCHANGED <<bs_running, rx_initialized, bs_now, current_date_key, archive,
                   total_received, total_saved, last_packet_at, station_counts,
                   codec_vars, st_vars>>

\* _process_reading up to its call of _save_reading: stamp and count
bs_run_process(t1) ==
    /\ bs_pc = "process"
    /\ t1 \in later(bs_now)
    /\ bs_now' = t1
    /\ total_received' = total_received + 1
    /\ last_packet_at' = t1
    /\ station_counts' = count_up(station_counts, bs_data.station_id)
    /\ bs_pc' = "append"
    /\ UNCHANGED <<bs_running, rx_initialized, rx_last_error, rx_last_rssi,
                   radio_delivered, bs_packet, bs_data, current_date_key, archive,
                   total_saved, codec_vars, st_vars>>

\* _save_reading: the append to the file of the day read at t2; an I/O
\* error leaves run() through its finally clause
bs_run_save(t2, err) ==
    /\ bs_pc = "append"
    /\ t2 \in later(bs_now)
    /\ \E row \in {archive_row(bs_data, last_packet_at)},
          date_key \in {get_current_file(current_date_key, t2)} :
          /\ can_fail_at(archive[date_key], row, err)
          /\ archive' = [archive EXCEPT ![date_key] = append_row(@, row, err)]
          /\ current_date_key' = date_key
    /\ bs_now' = t2
    /\ IF err = 0
       THEN /\ total_saved' = total_saved + 1
            /\ bs_pc' = "loop"
            /\ UNCHANGED <<bs_running, rx_initialized>>
       ELSE /\ total_saved' = total_saved
            /\ bs_pc' = "raised"
            /\ bs_running' = FALSE
            /\ rx_initialized' = FALSE
    /\ UNCHANGED <<rx_last_error, rx_last_rssi, radio_delivered, bs_packet, bs_data,
                   total_received, last_packet_at, station_counts, codec_vars, st_vars>>

\* SIGINT or SIGTERM: _handle_signal runs where the main thread stands and
\* calls aggregator.cleanup().  A signal inside _save_reading finds the
\* append in the state numbered step, which is how the file stays.
bs_handle_cleanup(t2, step) ==
    /\ bs_pc \in {"init", "loop", "receive", "process", "append"}
    /\ bs_pc' = "handler"
    /\ bs_running' = FALSE
    /\ rx_initialized' = FALSE
    /\ IF bs_pc = "append"
       THEN /\ t2 \in later(bs_now)
            /\ \E row \in {archive_row(bs_data, last_packet_at)},
                  date_key \in {get_current_file(current_date_key, t2)} :
                  /\ step \in 1..(Len(append_steps(archive[date_key], row)) - 1)
                  /\ archive' = [archive EXCEPT ![date_key] = append_row(@, row, step)]
                  /\ current_date_key' = date_key
            /\ bs_now' = t2
       ELSE /\ t2 = bs_now /\ step = 1
            /\ UNCHANGED <<archive, current_date_key, bs_now>>
    /\ UNCHANGED <<rx_last_error, rx_last_rssi, radio_delivered, bs_packet, bs_data,
                   total_received, total_saved, last_packet_at, station_counts,
                   codec_vars, st_vars>>

\* _handle_signal: sys.exit(0); the SystemExit passes run()'s finally
\* clause, which calls cleanup() once more
bs_handle_exit ==
    /\ bs_pc = "handler"
    /\ bs_pc' = "exited"
    /\ UNCHANGED <<bs_running, rx_initialized, rx_last_error, rx_last_rssi, bs_now,
                   radio_delivered, bs_packet, bs_data, current_date_key, archive,
                   total_received, total_saved, last_packet_at, station_counts,
                   codec_vars, st_vars>>

BsRunNext ==
    \/ \E dir_ok, radio_ok \in BOOLEAN : bs_main(dir_ok, radio_ok)
    \/ bs_run_test
    \/ bs_run_receive_none
    \/ \E packet \in PacketInputs, rssi \in RssiInputs : bs_run_receive(packet, rssi)
    \/ \E t1 \in later(bs_now) : bs_run_process(t1)
    \/ \E t2 \in later(bs_now), err \in append_errors : bs_run_save(t2, err)
    \/ \E t2 \in later(bs_now), step \in append_states : bs_handle_cleanup(t2, step)
    \/ bs_handle_exit

\* the station process is not running
StOff == st_pc = "down" /\ st_fresh({FALSE}, {FALSE})

\* the base-station process is not running
BsOff == bs_pc = "exited" /\ bs_fresh /\ bs_now = 0

\* one of the two processes, each on its own machine, is started
ShutdownInit == CodecIdle /\ ((BsOff /\ StConstructed) \/ (BsIdle /\ StOff))

ShutdownNext == RunNext \/ BsRunNext

SpecShutdown == ShutdownInit /\ [][ShutdownNext]_vars

\* ------------------------------------------------------- station start-up

\* main() of sensor/main.py from the start of the process (st_pc = "down")
\* to the constructed station: "validated" after load_config and
\* validate_config, "exited" after sys.exit(1), "raised" after an exception
\* nothing catches.

\* The StationConfig objects load_config may return, as far as storage and
\* schedule go; "None": no backup root, "blank": a path of white space
ConfigInputs ==
    [kind : {"config"},
     station_id : {<<>>, StationId},
     measurement_interval_seconds : {30, 60},
     primary_storage_path : {"/primary"},
     backup_storage_path : {"None", "blank", "/backup"},
     backup_sync_mode : {"immediate", "deferred"},
     backup_required : BOOLEAN,
     max_local_files : 0..2]

\* validate_config: no error is reported
validate_config(config) ==
    /\ strip(config.station_id) # <<>>
    /\ config.measurement_interval_seconds >= 60
    /\ config.max_local_files >= 1
    /\ config.backup_sync_mode \in {"immediate"}
    /\ config.primary_storage_path # "blank"
    /\ config.backup_storage_path # "blank"

\* the keyword arguments of the LocalStorage(...) call in
\* SensorStation.__init__, each with the attribute of config it is read from
storage_arguments ==
    { <<"storage_path", "local_storage_path">>,
      <<"station_id", "station_id">>,
      <<"max_files", "max_local_files">> }

\* the parameters of LocalStorage.__init__
LocalStorageParameters ==
    { "primary_storage_path", "station_id", "max_files", "backup_storage_path",
      "backup_sync_mode", "backup_required" }

\* those without default
LocalStorageRequired == { "primary_storage_path", "station_id" }

\* the value LocalStorage.__init__ receives for a parameter: the argument
\* passed for it, or its default
storage_argument(config, parameter, default) ==
    IF \E a \in storage_arguments : a[1] = parameter
    THEN config[(CHOOSE a \in storage_arguments : a[1] = parameter)[2]]
    ELSE default

\* SensorStation.__init__(config), as far as self.storage goes: the
\* exception raised, or the LocalStorage object
station_init(config) ==
    IF \E a \in storage_arguments : a[2] \notin DOMAIN config
    THEN [error |-> "AttributeError", storage |-> storage]
    ELSE IF \/ \E a \in storage_arguments : a[1] \notin LocalStorageParameters
            \/ \E r \in LocalStorageRequired : \A a \in storage_arguments : a[1] # r
    THEN [error |-> "TypeError", storage |-> storage]
    ELSE [error |-> "None",
          storage |->
             [station_id |-> storage_argument(config, "station_id", <<>>),
              max_files |-> storage_argument(config, "max_files", 30),
              backup_configured |->
                  storage_argument(config, "backup_storage_path", "None") # "None",
              backup_sync_mode |->
                  storage_argument(config, "backup_sync_mode", "immediate"),
              backup_required |-> storage_argument(config, "backup_required", FALSE),
              backup_ready |-> FALSE,
              last_backup_error |-> "None"]]

\* main(): load_config, validate_config, sys.exit(1) on errors
st_main_load(config) ==
    /\ st_pc = "down"
    /\ st_pc' = IF validate_config(config) THEN "validated" ELSE "exited"
    /\ last_call' = [NoCall EXCEPT !.op = "validate_config", !.config = config,
                                   !.result = validate_config(config)]
    /\ UNCHANGED <<radio_vars, ledger_vars, st_calls, st_faults, st_running,
                   st_signalled, st_lag, codec_vars, bs_vars>>

\* main(): station = SensorStation(config)
st_main_construct ==
    /\ st_pc = "validated"
    /\ \E made \in {station_init(last_call.config)} :
          /\ st_pc' = IF made.error = "None" THEN "constructed" ELSE "raised"
          /\ storage' = made.storage
          /\ last_call' = [NoCall EXCEPT !.op = "SensorStation", !.config = last_call.config,
                                         !.result = (made.error = "None"),
                                         !.error = made.error]
    /\ UNCHANGED <<radio_vars, primary, backup, saved_days, saves_ok, unlinks_ok,
                   mirrors_ok, st_calls, st_faults, st_running, st_signalled, st_lag,
                   codec_vars, bs_vars>>

\* ------------------------------------------------------- station properties

\* a step that is one whole transmit_and_store
delivery_attempt == last_call'.op = "transmit_and_store" /\ st_calls' = st_calls + 1

\* the status of the reading the last call handed to the ledger
status_stored(call) == call.reading.transmission_status

status_as_delivered ==
    /\ status_stored(last_call') \in {"success", "local_only"}
    /\ status_stored(last_call') = "success"
          <=> (st_lora_ready /\ tx_initialized /\ last_call'.sent_ok)

acknowledged ==
    last_call.op \in {"save_reading", "transmit_and_store"} /\ last_call.result

\* the row of the reading is in its partition file, within what was fsynced
durable_in(dir, data) ==
    LET file == file_at(dir, target_name(data, 1))
    IN  /\ file.exists
        /\ \E i \in 1..file.synced : file.lines[i] = ledger_row(data)

\* C2 as stated: when save_reading(r) has returned True, r's row is in the
\* primary partition file of r's UTC day, within what was fsynced (so that
\* it survives a crash right after), whatever r's day is.
C2_AcknowledgedRowDurable == acknowledged => durable_in(primary, last_call.reading)

valid_change(old, new) ==
    \/ new = old
    \/ /\ old.kind = "row" /\ new.kind = "row"
       /\ old.transmission_status = "local_only"
       /\ new = [old EXCEPT !.transmission_status = "success"]

shorter(a, b) == IF Len(a) < Len(b) THEN Len(a) ELSE Len(b)

\* C3: in every step, each line of a primary partition file that is there
\* before and after is unchanged or is a row whose status went from
\* local_only to success, all other fields the same; so no row leaves
\* success or pending and none becomes local_only or pending.
C3_StatusOnlyLocalOnlyToSuccess ==
    [][\A n \in glob_csv(primary, storage.station_id) \cap DOMAIN primary' :
          \A i \in 1..shorter(primary[n].lines, primary'[n].lines) :
             valid_change(primary[n].lines[i], primary'[n].lines[i])]_vars

\* mark_as_sent has rewritten a file that holds a pending row and a row
\* now success
C3_Witness ==
    /\ last_call.op = "mark_as_sent" /\ last_call.rewritten >= 1
    /\ \E n \in glob_csv(primary, storage.station_id) :
          \E i, j \in 1..Len(primary[n].lines) :
             /\ primary[n].lines[i].kind = "row" /\ primary[n].lines[j].kind = "row"
             /\ primary[n].lines[i].transmission_status = "pending"
             /\ primary[n].lines[j].transmission_status = "success"

\* a line with its status flipped when it is a local_only row with a
\* timestamp of targets
flip_line(line, targets) ==
    IF /\ line.kind = "row"
       /\ line.timestamp \in targets
       /\ line.transmission_status = "local_only"
    THEN [line EXCEPT !.transmission_status = "success"]
    ELSE line

flipped(lines, targets) == [i \in 1..Len(lines) |-> flip_line(lines[i], targets)]

\* a step that is a call of mark_as_sent
marking == last_call'.op = "mark_as_sent" /\ st_calls' = st_calls + 1

\* C4 as stated: a mark_as_sent(T) that meets no I/O error leaves every
\* primary partition file with the same lines in the same order, the
\* status success in exactly the rows that had a timestamp of T and the
\* status local_only, and nothing else changed.
C4_MarkFlipsExactlyTargets ==
    [][marking /\ ~last_call'.crashed =>
          \A targets \in TargetInputs :
             ls_mark_as_sent(targets, NoFault) =>
                \A n \in glob_csv(primary, storage.station_id) :
                   /\ n \in DOMAIN primary'
                   /\ primary'[n].lines = flipped(primary[n].lines, targets)]_vars

\* C5: when the process dies at any point of mark_as_sent(T), every primary
\* partition file is still there and is either exactly as before the call or
\* holds all its lines with the rows of T flipped, fsynced to its end.
C5_CrashLeavesOldOrNew ==
    [][marking /\ last_call'.crashed =>
          \A targets \in TargetInputs :
             \A fault \in mark_faults(primary,
                                      sorted(glob_csv(primary, storage.station_id)),
                                      targets) :
                (fault.crash /\ ls_mark_as_sent(targets, fault)) =>
                   \A n \in glob_csv(primary, storage.station_id) :
                      /\ n \in DOMAIN primary'
                      /\ \/ primary'[n] = primary[n]
                         \/ /\ primary'[n].lines = flipped(primary[n].lines, targets)
                            /\ primary'[n].synced = Len(primary'[n].lines)]_vars

\* the process died while the temporary file was half written
C5_Witness ==
    /\ last_call.op = "mark_as_sent" /\ last_call.crashed
    /\ \E n \in glob_csv(primary, storage.station_id) :
          LET tmp == with_suffix(n, TmpSuffix)
          IN  /\ tmp \in DOMAIN primary
              /\ Len(primary[tmp].lines) \in 1..(Len(primary[n].lines) - 1)
              /\ \E i \in 1..Len(primary[n].lines) :
                    /\ primary[n].lines[i].kind = "row"
                    /\ primary[n].lines[i].transmission_status = "local_only"

\* the days among days that no more than count - 1 other days follow
most_recent(days, count) ==
    { d \in days : Cardinality({ e \in days : e > d }) < count }

partition_of(day) == file_for_root(storage.station_id, date_text(day))

retained == glob_csv(primary, storage.station_id)

\* a step that is a save which returned True
successful_save ==
    /\ last_call'.op \in {"save_reading", "transmit_and_store"}
    /\ st_calls' = st_calls + 1
    /\ last_call'.result

\* the rotation of a save removes only files older than all it keeps, and
\* not the newest
rotates_oldest ==
    LET before == retained \cup {target_name(last_call'.reading, 1)}
        after  == glob_csv(primary', storage.station_id)
    IN  /\ after \subseteq before
        /\ \A gone \in before \ after, kept \in after : text_less(gone, kept)
        /\ \A name \in before : (\A other \in before \ {name} : text_less(other, name))
                                   => name \in after

exactly_most_recent ==
    glob_csv(primary', storage.station_id)
       = { partition_of(d) : d \in most_recent(saved_days', storage.max_files) }

\* C6 as stated: after a run of saves that all returned True, the primary
\* partition files are exactly those of the max_files most recent days
\* saved (all of them when fewer); rotation removes only the oldest files
\* and never the newest.
C6_RetainsMostRecentAsStated ==
    [][successful_save => (saves_ok' => exactly_most_recent) /\ rotates_oldest]_vars

\* C6: after a run of saves that all returned True and in which no removal
\* of a file failed, the primary partition files are exactly those of the
\* max_files most recent days saved (all of them when fewer); rotation
\* removes only the oldest files and never the newest.
C6_RetainsMostRecent ==
    [][successful_save =>
          ((saves_ok' /\ unlinks_ok') => exactly_most_recent) /\ rotates_oldest]_vars

\* more days than max_files have been saved and the oldest has been rotated
\* away
C6_Witness ==
    /\ last_call.op \in {"save_reading", "transmit_and_store"} /\ last_call.result
    /\ saves_ok /\ unlinks_ok
    /\ Cardinality(saved_days) > storage.max_files
    /\ Cardinality(retained) = storage.max_files
    /\ \E d \in saved_days : partition_of(d) \notin retained

\* ------------------------------------------------ base-station properties

packet_arrives == radio_delivered' = radio_delivered + 1

decodes(packet) == decoded_packets[packet].kind = "parsed"

count_of(counts, sid) == IF sid \in DOMAIN counts THEN counts[sid] ELSE 0

archive_days == DOMAIN archive

\* the step appended exactly one data row, the packet's, to exactly one
\* archive file (below a header when it created the file) and changed no
\* other line of the archive
one_row_appended(p) ==
    \E d \in archive_days :
       /\ \A o \in archive_days \ {d} : archive'[o] = archive[o]
       /\ archive'[d].exists
       /\ Len(data_rows(archive'[d])) = Len(data_rows(archive[d])) + 1
       /\ \E k \in 1..2 :
             /\ Len(archive'[d].lines) = Len(archive[d].lines) + k
             /\ prefix(archive'[d].lines, Len(archive[d].lines)) = archive[d].lines
             /\ archive'[d].synced = Len(archive'[d].lines)
             /\ LET row == archive'[d].lines[Len(archive'[d].lines)]
                IN  /\ row.kind = "row"
                    /\ row.received_at = last_packet_at'
                    /\ row.station_id = p.station_id
                    /\ row.timestamp = p.timestamp
                    /\ row.raw_distance_mm = p.raw_distance_mm
                    /\ row.snow_depth_mm = p.snow_depth_mm
                    /\ row.sensor_temp_c = p.sensor_temp_c
                    /\ row.battery_voltage = p.battery_voltage

counted_once(p) ==
    /\ total_received' = total_received + 1
    /\ total_saved' = total_saved + 1
    /\ count_of(station_counts', p.station_id) = count_of(station_counts, p.station_id) + 1
    /\ \A sid \in DOMAIN station_counts' \ {p.station_id} :
          count_of(station_counts', sid) = count_of(station_counts, sid)

C10_MalformedDropped ==
    [][(packet_arrives /\ ~decodes(bs_packet'))
          => /\ archive' = archive
             /\ total_saved' = total_saved
             /\ total_received' = total_received
             /\ station_counts' = station_counts
             /\ last_packet_at' = last_packet_at
             /\ bs_pc' = "loop" /\ bs_running' /\ rx_initialized']_vars

\* a non-numeric payload was dropped after a good one, and the loop is alive
C10_Witness ==
    /\ bs_packet # NoPacket
    /\ decoded_packets[bs_packet] = InvalidLiteral
    /\ radio_delivered = 2 /\ total_received = 1 /\ total_saved = 1
    /\ bs_pc = "loop" /\ bs_running

\* ------------------------------------------------------ codec properties

has_comma(s) == \E i \in 1..Len(s) : s[i] = ","

no_outer_space(s) == s = <<>> \/ (~IsSpace(s[1]) /\ ~IsSpace(s[Len(s)]))

decimals_at_most(x, d) == x = None \/ x.e <= d

comma_count(s) == Cardinality({i \in 1..Len(s) : s[i] = ","})

same_fields(r, p) ==
    /\ p.kind = "parsed"
    /\ p.station_id = r.station_id
    /\ p.timestamp = r.timestamp
    /\ p.raw_distance_mm = r.raw_distance_mm
    /\ p.snow_depth_mm = r.snow_depth_mm
    /\ p.sensor_temp_c = r.sensor_temp_c
    /\ p.battery_voltage = r.battery_voltage

absent_as_dash(r, text) ==
    LET f == split(text)
    IN  /\ r.sensor_temp_c = None => (Len(f) >= 5 /\ f[Len(f) - 1] = <<"-">>)
        /\ r.battery_voltage = None => (Len(f) >= 6 /\ f[Len(f)] = <<"-">>)

round_trip_pre(r) ==
    /\ ~has_comma(r.station_id)
    /\ ~has_comma(r.timestamp)
    /\ decimals_at_most(r.sensor_temp_c, 1)
    /\ decimals_at_most(r.battery_voltage, 2)

decoded_from_reading ==
    codec_reading # NoReading /\ codec_message # NoMessage /\ codec_parsed # NotParsed

\* C8 as stated: every reading without a comma in station_id and timestamp,
\* with integer distances and optional values of at most 1 and 2 decimals,
\* is reproduced exactly by decode(encode(r)), an absent optional value
\* travelling as "-" and coming back as None.
C8_RoundTripAsStated ==
    (decoded_from_reading /\ round_trip_pre(codec_reading))
        => /\ same_fields(codec_reading, codec_parsed)
           /\ absent_as_dash(codec_reading, codec_message.text)

\* C8 amended: the same round trip, for readings whose station_id and
\* timestamp moreover carry no leading or trailing whitespace (the decoder
\* trims every field).
C8_RoundTrip ==
    (/\ decoded_from_reading
     /\ round_trip_pre(codec_reading)
     /\ no_outer_space(codec_reading.station_id)
     /\ no_outer_space(codec_reading.timestamp))
        => /\ same_fields(codec_reading, codec_parsed)
           /\ absent_as_dash(codec_reading, codec_message.text)

C8_Witness ==
    /\ decoded_from_reading
    /\ round_trip_pre(codec_reading)
    /\ no_outer_space(codec_reading.station_id)
    /\ no_outer_space(codec_reading.timestamp)
    /\ codec_reading.station_id = <<"S", "_", "1">>
    /\ codec_reading.sensor_temp_c = Dec(-52, 1)
    /\ codec_reading.battery_voltage = None
    /\ codec_parsed.kind = "parsed"
    /\ codec_parsed.battery_voltage = None

\* C9: a line whose number of comma-separated fields is not six is refused
\* as malformed, whatever the fields hold, and yields no reading.
C9_FieldCount ==
    (codec_message # NoMessage /\ codec_parsed # NotParsed
        /\ comma_count(codec_message.text) + 1 # 6)
        => codec_parsed = MalformedMessage

C9_Witness ==
    /\ codec_message # NoMessage
    /\ comma_count(codec_message.text) + 1 = 7
    /\ codec_parsed = MalformedMessage

\* --------------------------------------------- ledger-with-backup properties

\* a step that is one whole save_reading that returned
saving == last_call'.op = "save_reading" /\ st_calls' = st_calls + 1 /\ ~last_call'.crashed

\* the instant a timestamp names, in hours UTC: a timestamp without offset
\* is read as UTC
utc_instant(ts) == ts.day * 24 + ts.hour - (IF ts.aware THEN ts.offset ELSE 0)

\* the calendar day of the UTC date on which that instant falls
utc_calendar_day(ts) ==
    CHOOSE d \in 0..(MaxDay + 1) : d * 24 <= utc_instant(ts) /\ utc_instant(ts) < (d + 1) * 24

partition_for_day(day) == storage.station_id \o <<"_">> \o date_text(day) \o CsvSuffix

\* C11: a save_reading that returns True has appended the reading's row to
\* the partition file named for the UTC calendar date of the reading's
\* timestamp, and to no other file: a timestamp with an offset is converted
\* to UTC first, one without offset is taken as UTC.
C11_PartitionedByUtcDate ==
    [][(saving /\ last_call'.result /\ last_call'.reading.timestamp.valid)
          => last_call'.placed
                 = {partition_for_day(utc_calendar_day(last_call'.reading.timestamp))}]_vars

\* 23:00 at UTC-5 of day 1 was saved into the partition of day 2, and
\* the reading without offset into the partition of its own day
C11_Witness ==
    /\ last_call.op = "save_reading" /\ last_call.result
    /\ last_call.reading.timestamp.aware /\ last_call.reading.timestamp.offset = -5
    /\ last_call.placed = {partition_for_day(2)}
    /\ \E n \in DOMAIN primary : \E i \in 1..Len(primary[n].lines) :
          /\ primary[n].lines[i].kind = "row"
          /\ ~primary[n].lines[i].timestamp.aware
          /\ n = partition_for_day(2)

mirrored_ledger == storage.backup_configured /\ storage.backup_sync_mode = "immediate"

\* the partition files of a root with their data rows in file order
partitions(dir) ==
    [n \in glob_csv(dir, storage.station_id) |-> data_rows(dir[n])]

same_partitions == partitions(backup) = partitions(primary)

\* nothing has disturbed any call so far: no write and no removal failed
\* in either root, and the UTC date did not change between the two writes
\* of a reading
undisturbed == st_faults = 0

\* C12: with a backup root, sync mode immediate, and no failed write to the
\* backup root, the backup root holds the same partition files with the
\* same rows in the same order as the primary root, and after a save the
\* backup health is ready.
C12_MirrorEqualsPrimaryAsStated ==
    (mirrored_ledger /\ mirrors_ok)
        => same_partitions /\ (st_calls >= 1 => storage.backup_ready)

\* The roots of a mirrored ledger do agree as long as no write and no removal
\* failed in either root and the UTC date did not change between the two
\* writes of a reading without parseable timestamp (C12 under these
\* conditions).
C12_MirrorEqualsPrimary ==
    (mirrored_ledger /\ undisturbed)
        => same_partitions /\ (st_calls >= 1 => storage.backup_ready)

\* three undisturbed saves into a mirrored ledger that has rotated
C12_Witness ==
    /\ mirrored_ledger /\ undisturbed
    /\ st_calls = MaxCalls
    /\ Cardinality(saved_days) > storage.max_files
    /\ Cardinality(glob_csv(backup, storage.station_id)) = storage.max_files
    /\ same_partitions
    /\ storage.backup_ready

\* the mirror write of the call raised
mirror_failed == last_call'.mirror_writes = 1 /\ last_call'.io.backup_err # 0

\* the same call on a ledger without backup root, the primary root
\* suffering the same faults
without_backup ==
    save_reading([world EXCEPT !.storage.backup_configured = FALSE],
                 last_call'.reading, last_call'.today,
                 [NoFaults EXCEPT !.err = last_call'.io.err,
                                  !.fail_at = last_call'.io.fail_at])

\* C13: when the mirror write of a save_reading fails, the call returns what
\* the primary write returned and leaves the primary root as a ledger
\* without backup root would have left it, and the backup health is not
\* ready and holds an error.
C13_FailedMirrorLeavesPrimary ==
    [][(saving /\ mirror_failed)
          => /\ last_call'.result = without_backup.result
             /\ primary' = without_backup.primary
             /\ ~storage'.backup_ready
             /\ storage'.last_backup_error # "None"]_vars

\* a save whose mirror write failed returned True with its row in the
\* primary root and none in the backup root
C13_Witness ==
    /\ last_call.op = "save_reading"
    /\ last_call.mirror_writes = 1 /\ last_call.io.backup_err # 0
    /\ last_call.result /\ last_call.appended = 1
    /\ ~storage.backup_ready /\ storage.last_backup_error = "error"
    /\ ~same_partitions

\* C14: every save_reading on a ledger with a backup root and sync mode
\* immediate attempts the mirror write, whether its primary write succeeded
\* or failed.
C14_MirrorAlwaysAttempted ==
    [][(saving /\ mirrored_ledger) => last_call'.mirror_writes = 1]_vars

\* a step that is one whole SensorStation.initialize
initializing == st_pc = "constructed" /\ last_call'.op = "initialize"

\* the backup root is configured, not required, and was not usable when last tried
backup_unavailable ==
    /\ storage.backup_configured /\ ~storage.backup_required
    /\ ~storage.backup_ready /\ storage.last_backup_error # "None"

\* C15: when the backup root cannot be created and backup_required is
\* false, initialize succeeds with backup health not ready and an error
\* recorded; and a later save_reading whose primary write meets no error
\* returns True with its row in the primary root, whatever becomes of the
\* mirror write.
C15_OptionalBackupDoesNotBlock ==
    [][/\ (initializing /\ last_call'.mkdir = "backup" /\ ~storage.backup_required)
            => /\ last_call'.result /\ st_pc' = "ready"
               /\ ~storage'.backup_ready /\ storage'.last_backup_error # "None"
       /\ (saving /\ backup_unavailable /\ last_call'.io.err = 0)
            => last_call'.result /\ last_call'.appended = 1]_vars

\* after an initialize that could not create the optional backup root,
\* a save returned True with its row in the primary root alone
C15_Witness ==
    /\ st_pc = "ready" /\ backup_unavailable
    /\ last_call.op = "save_reading" /\ last_call.result /\ last_call.appended = 1
    /\ last_call.mirror_writes = 1 /\ last_call.io.backup_err = 1
    /\ backup = EmptyDir /\ primary # EmptyDir

header_then_rows(file) ==
    /\ file.lines[1].kind = "header"
    /\ \A i \in 2..Len(file.lines) : file.lines[i].kind = "row"

\* C17: in every reachable state, every partition file of the primary root
\* that holds anything begins with the header row, followed by data rows
\* only (a file just created and still empty is let pass).
C17_HeaderFirst ==
    \A n \in glob_csv(primary, storage.station_id) :
       primary[n].lines # <<>> => header_then_rows(primary[n])

\* ------------------------------------------------- base-station liveness

\* the pass received and counted a decoded packet and its archive append
\* raised an I/O error
append_failed ==
    /\ packet_arrives /\ decodes(bs_packet')
    /\ total_received' = total_received + 1
    /\ total_saved' = total_saved

\* C19: a storage failure while a decoded packet is appended to the
\* archive does not end the base-station process: after the pass run() is
\* still in its loop, running, with the receiver initialized.
C19_AppendFailureKeepsLoop ==
    [][append_failed => bs_pc' = "loop" /\ bs_running' /\ rx_initialized']_vars

\* ------------------------------------------------- station loop properties

\* the last transmit_and_store could not write the reading to the primary root
write_failed == last_call.op = "transmit_and_store" /\ ~last_call.result

\* run() has been left
loop_ended == st_pc \in {"cleanup", "exited", "raised"}

\* C18: a failed primary write does not end the station loop.  The loop is
\* left only after a shutdown signal; after a failed write, unless a signal
\* was delivered, take_reading is called again; and a reading that was
\* taken is handed to transmit_and_store, which calls save_reading for it.
C18_FailedWriteKeepsLoop ==
    /\ [](loop_ended => st_signalled)
    /\ (write_failed ~> (st_signalled \/ last_call.op = "take_reading"))
    /\ (st_pc = "deliver" ~> last_call.op = "transmit_and_store")

\* a save failed, no signal was delivered, and a later pass of the loop has
\* taken a reading and stored it
C18_Witness ==
    /\ st_pc = "sleep" /\ ~st_signalled /\ st_running
    /\ ~saves_ok
    /\ last_call.op = "transmit_and_store" /\ last_call.result /\ last_call.appended = 1

\* ------------------------------------------------------ shutdown properties

\* the station loop is inside an iteration (reading or sending and storing)
st_iterating == st_pc \in {"reading", "deliver"}

\* the receive loop is inside an iteration (receiving, counting or appending)
bs_iterating == bs_pc \in {"receive", "process", "append"}

\* station: cleanup() is not called inside an iteration, and no iteration
\* starts once a signal has been delivered
station_orderly ==
    /\ (st_pc # "exited" /\ st_pc' = "exited") => ~st_iterating
    /\ (st_signalled /\ st_pc # "reading") => st_pc' # "reading"

\* base station: the cleanup() of the signal handler is not called inside
\* an iteration, and no iteration starts once the handler has run
base_orderly ==
    /\ (bs_pc # "handler" /\ bs_pc' = "handler") => ~bs_iterating
    /\ bs_pc \in {"handler", "exited"} => bs_pc' \notin {"loop", "receive"}

\* C20: in both processes, after a shutdown signal the cleanup is called
\* only once the iteration in progress has finished or been aborted, never
\* while it is executing, and no new iteration starts after the signal.
C20_CleanupAfterIteration == [][station_orderly /\ base_orderly]_vars

\* ---------------------------------------------------- archive partitioning

\* the pass received a decoded packet and touched the archive
archiving == packet_arrives /\ decodes(bs_packet') /\ archive' # archive

\* C21: the archive file a packet is appended to is the file of the base
\* station's own UTC day when the file is chosen, whatever timestamp the
\* packet carries: that file alone changes, and it is the file the
\* aggregator holds as current.
C21_FileByReceiverDay ==
    [][archiving =>
          /\ current_date_key' = utc_day(bs_now')
          /\ \A d \in archive_days \ {utc_day(bs_now')} : archive'[d] = archive[d]]_vars

\* two packets with different sender timestamps lie in one archive file,
\* that of a day after day 0
C21_Witness ==
    \E d \in archive_days \ {0} :
       \E i, j \in 1..Len(archive[d].lines) :
          /\ archive[d].lines[i].kind = "row" /\ archive[d].lines[j].kind = "row"
          /\ archive[d].lines[i].timestamp # archive[d].lines[j].timestamp

\* --------------------------------------------------------- unsent readings

\* how often the row occurs in the list
count_in(row, rows) == Cardinality({ i \in 1..Len(rows) : rows[i] = row })

\* how often the row occurs, with status local_only, in the partition files
\* of the station under the primary root
stored_unsent(row) ==
    LET names == glob_csv(primary, storage.station_id)
        RECURSIVE total(_)
        total(ns) == IF ns = {} THEN 0
                     ELSE LET n == CHOOSE x \in ns : TRUE
                          IN  occurrences(row, primary[n]) + total(ns \ {n})
    IN  IF row.kind = "row" /\ row.transmission_status = "local_only"
        THEN total(names) ELSE 0

\* every data row of the station's partition files
stored_rows ==
    UNION { { primary[n].lines[i] : i \in 1..Len(primary[n].lines) } :
            n \in glob_csv(primary, storage.station_id) }

\* C22: a get_unsent_readings() that meets no read error returns exactly
\* the rows of this station's primary partition files whose
\* transmission_status is local_only, each as often as it is stored, and
\* changes no file.
C22_UnsentExactlyLocalOnly ==
    [][(last_call'.op = "get_unsent_readings" /\ st_calls' = st_calls + 1
        /\ ~last_call'.read_error)
          => /\ \A row \in stored_rows \cup { last_call'.unsent[i] :
                                                i \in 1..Len(last_call'.unsent) } :
                   count_in(row, last_call'.unsent) = stored_unsent(row)
             /\ primary' = primary /\ backup' = backup]_vars

\* ------------------------------------------------------ marking, repeated

\* the primary root after a mark_as_sent(targets) that meets no fault
marked_once(targets) == mark_as_sent(primary, storage.station_id, targets, NoFault).dir

\* a mark_as_sent(targets) on the root dir rewrites none of the station's files
rewrites_nothing(dir, targets) ==
    \A n \in glob_csv(dir, storage.station_id) : Len(mark_file_steps(dir, n, targets)) = 1

\* C23: for every reachable ledger and every timestamp list T, a second
\* mark_as_sent(T) leaves the ledger as the first left it and rewrites no
\* file.
C23_MarkIdempotent ==
    \A targets \in TargetInputs :
       \E once \in {marked_once(targets)} :
          /\ mark_as_sent(once, storage.station_id, targets, NoFault).dir = once
          /\ rewrites_nothing(once, targets)

\* a ledger that a mark_as_sent has rewritten and in which a further list
\* T flips a row, after which T flips nothing more
C23_Witness ==
    /\ last_call.op = "mark_as_sent" /\ last_call.rewritten > 0 /\ ~last_call.crashed
    /\ \E targets \in TargetInputs :
          \E once \in {marked_once(targets)} :
             /\ once # primary
             /\ mark_as_sent(once, storage.station_id, targets, NoFault).dir = once

\* ------------------------------------------------------- schedule of the loop

\* C24: delay does not compound.  At the start of every iteration (the
\* loop test passed, take_reading about to be called) the scheduled tick
\* lags the clock by at most one interval and is not ahead of it, however
\* long the iterations before took.
C24_LagAtMostOneInterval ==
    (st_pc = "reading" \/ (st_pc = "top" /\ st_running)) => st_lag \in 0..Interval

\* an iteration is about to start one full interval behind its tick, after
\* an earlier one had overrun
C24_Witness ==
    /\ st_pc = "reading" /\ st_lag = Interval
    /\ last_call.op = "transmit_and_store"

\* ------------------------------------------------------- start-up of the station

StartInit == CodecIdle /\ BsOff /\ StOff

StartNext ==
    \/ \E config \in ConfigInputs : st_main_load(config)
    \/ st_main_construct

SpecStart == StartInit /\ [][StartNext]_vars

\* the ledger LocalStorage builds from the settings of a configuration
configured_storage(config) ==
    [station_id |-> config.station_id,
     max_files |-> config.max_local_files,
     backup_configured |-> config.backup_storage_path # "None",
     backup_sync_mode |-> config.backup_sync_mode,
     backup_required |-> config.backup_required,
     backup_ready |-> FALSE,
     last_backup_error |-> "None"]

\* C25: constructing the station from a validated configuration succeeds,
\* and the ledger of the station has the configuration's station id, rotation
\* limit and backup settings (backup root, sync mode, required flag).
C25_ConstructsFromValidatedConfig ==
    [][st_pc = "validated" =>
         /\ st_pc' = "constructed"
         /\ storage' = configured_storage(last_call.config)]_vars

\* ------------------------------------------------------- network counters

\* DataAggregator.get_network_status()
get_network_status ==
    [total_received |-> total_received,
     total_saved |-> total_saved,
     last_packet_at |-> last_packet_at,
     active_stations |-> Cardinality(DOMAIN station_counts),
     station_counts |-> station_counts]

RECURSIVE sum_counts(_, _)
sum_counts(counts, ids) ==
    IF ids = {} THEN 0
    ELSE LET k == CHOOSE x \in ids : TRUE
         IN  counts[k] + sum_counts(counts, ids \ {k})

\* the data rows of the archive; the archive is empty when the process starts
archive_rows(d) == data_rows(archive[d])

RECURSIVE rows_upto(_)
rows_upto(d) == IF d < 0 THEN 0 ELSE Len(archive_rows(d)) + rows_upto(d - 1)

rows_appended == rows_upto(utc_day(MaxTick))

\* the station ids of the rows of the archive
archived_stations ==
    UNION { { archive_rows(d)[i].station_id : i \in 1..Len(archive_rows(d)) } :
            d \in archive_days }

\* what the counters agree on whether or not an append has failed
counters_agree ==
    /\ get_network_status.total_saved <= get_network_status.total_received
    /\ get_network_status.total_received
          = sum_counts(station_counts, DOMAIN station_counts)
    /\ \A sid \in DOMAIN station_counts : station_counts[sid] >= 1
    /\ archived_stations \subseteq DOMAIN station_counts
    /\ get_network_status.active_stations = Cardinality(DOMAIN station_counts)

C30_ReceivedDateIsFileDate ==
    \A d \in archive_days :
       \A i \in 1..Len(archive_rows(d)) : utc_day(archive_rows(d)[i].received_at) = d

\* ------------------------------------------------------- backup health

\* the step made an attempt on the backup root: initialize() reached the
\* mkdir of a configured backup root, or a save reached the mirror write
backup_mkdir_attempted ==
    last_call'.op = "initialize" /\ last_call'.mkdir \in {"ok", "backup"}
        /\ storage.backup_configured

backup_write_attempted == last_call'.mirror_writes = 1

\* and the attempt succeeded
backup_attempt_succeeded ==
    \/ backup_mkdir_attempted /\ last_call'.mkdir = "ok"
    \/ backup_write_attempted /\ last_call'.io.backup_err = 0

\* C27: ready = true in the backup health implies that a backup root is
\* configured and last_error is empty; and the health is that of the most
\* recent attempt on the backup root: after an attempt ready says whether it
\* succeeded and last_error is empty exactly when it did (so a write that
\* succeeds after a failure restores ready and clears last_error), and a step
\* without attempt leaves ready and last_error as they were.
C27_HealthOfLastAttempt ==
    /\ [](get_backup_health(storage).ready =>
             /\ get_backup_health(storage).configured
             /\ get_backup_health(storage).last_error = "None")
    /\ [][IF backup_mkdir_attempted \/ backup_write_attempted
          THEN /\ get_backup_health(storage').ready = backup_attempt_succeeded
               /\ (get_backup_health(storage').last_error = "None")
                     = backup_attempt_succeeded
          ELSE /\ get_backup_health(storage').ready = get_backup_health(storage).ready
               /\ get_backup_health(storage').last_error
                     = get_backup_health(storage).last_error]_vars

\* a mirror write has just succeeded after an earlier one failed, and the
\* health is ready without error
C27_Witness ==
    /\ last_call.mirror_writes = 1 /\ last_call.io.backup_err = 0
    /\ ~mirrors_ok
    /\ get_backup_health(storage).ready
    /\ get_backup_health(storage).last_error = "None"

\* ------------------------------------------------------- marking and the backup

\* a station with a backup root that transmits, saves and marks
MarkMirrorInit == CodecIdle /\ BsIdle /\ st_constructed({TRUE}, BOOLEAN)

\* readings of two days
MarkTimestamps == { utc_noon(1), utc_noon(2) }

\* the radio does not come up, so every reading is stored as local_only
MarkMirrorNext ==
    \/ \E sensor_ok, primary_ok, backup_ok \in BOOLEAN :
          st_initialize(sensor_ok, FALSE, primary_ok, backup_ok)
    \/ /\ st_serving
       /\ \E timestamp \in MarkTimestamps, send_ok \in {FALSE}, rssi \in {NoRssi} :
             \E today \in todays(timestamp) :
                \E io \in save_faults(take_reading(timestamp), today) :
                   st_transmit_and_store(timestamp, send_ok, rssi, today, io)
    \/ /\ st_serving
       /\ LET files == sorted(glob_csv(primary, storage.station_id))
          IN  \E targets \in TargetInputs :
                 \E fault \in (IF targets = {} THEN {NoFault}
                               ELSE mark_faults(primary, files, targets)) :
                    ls_mark_as_sent(targets, fault)

SpecMarkMirror == MarkMirrorInit /\ [][MarkMirrorNext]_vars

\* rows of the file with this status
rows_with_status(file, status) ==
    { i \in 1..Len(file.lines) :
        file.lines[i].kind = "row" /\ file.lines[i].transmission_status = status }

\* C28: mark_as_sent changes only files under the primary root; every file
\* under the backup root is left as it was, so that a row the call flipped to
\* success in the primary keeps local_only in the backup copy.
C28_MarkLeavesBackup ==
    [][last_call'.op = "mark_as_sent" => backup' = backup]_vars

\* mark_as_sent has just rewritten a primary file whose rows are now success
\* while the backup copy of the file still holds a local_only row
C28_Witness ==
    /\ last_call.op = "mark_as_sent" /\ last_call.rewritten >= 1
    /\ \E n \in DOMAIN primary \cap DOMAIN backup :
          /\ rows_with_status(primary[n], "success") # {}
          /\ rows_with_status(primary[n], "local_only") = {}
          /\ rows_with_status(backup[n], "local_only") # {}

\* ------------------------------------------------------- two stations, one root

\* ids of a second station writing to the same storage root: one unrelated
\* to StationId, one that is StationId, "_" and more
OtherIds == { <<"B">>, StationId \o <<"_", "0", "0">> }

\* the reading the second station stores for a day, its radio being down
other_reading(other_id, day) ==
    [kind |-> "reading",
     timestamp |-> utc_noon(day),
     station_id |-> other_id,
     raw_distance_mm |-> 1850,
     snow_depth_mm |-> 150,
     sensor_temp_c |-> None,
     battery_voltage |-> None,
     signal_quality |-> 0,
     transmission_status |-> "local_only"]

\* the root after the ledger of the second station saved one reading for
\* each of the days 1..last (LocalStorage.save_primary with its station_id)
RECURSIVE other_saved(_, _, _)
other_saved(other_id, last, max_files) ==
    IF last = 0 THEN EmptyDir
    ELSE cleanup_old_files(
            save_to_root(other_saved(other_id, last - 1, max_files), other_id,
                         date_key_from_timestamp(utc_noon(last), last),
                         other_reading(other_id, last), 0),
            other_id, max_files, 0)

\* the partition files of the second station
other_files(dir) ==
    { n \in DOMAIN dir :
        \E other_id \in OtherIds, day \in 1..MaxDay :
           n = file_for_root(other_id, date_text(day)) }

SharedInit ==
    /\ CodecIdle /\ BsIdle
    /\ st_pc = "constructed"
    /\ \E other_id \in OtherIds, last \in 1..2 :
          \E shared \in {other_saved(other_id, last, 2)} :
             /\ st_lora_ready = FALSE
             /\ st_last_tx_success = "None"
             /\ tx_initialized = FALSE
             /\ tx_last_rssi = NoRssi
             /\ tx_last_error = "None"
             /\ storage \in [station_id : {StationId},
                             max_files : MaxFilesInputs,
                             backup_configured : {FALSE},
                             backup_sync_mode : {"immediate"},
                             backup_required : {FALSE},
                             backup_ready : {FALSE},
                             last_backup_error : {"None"}]
             /\ primary = shared
             /\ backup = EmptyDir
             /\ st_calls = 0
             /\ st_faults = 0
             /\ last_call = NoCall
             /\ saved_days = {}
             /\ saves_ok = TRUE
             /\ unlinks_ok = TRUE
             /\ mirrors_ok = TRUE
             /\ st_running = FALSE
             /\ st_signalled = FALSE
             /\ st_lag = 0

\* the ledger of StationId at work on the shared root, its radio down
SharedNext ==
    \/ \E sensor_ok, primary_ok \in BOOLEAN :
          st_initialize(sensor_ok, FALSE, primary_ok, TRUE)
    \/ /\ st_serving
       /\ \E timestamp \in MarkTimestamps, send_ok \in {FALSE}, rssi \in {NoRssi} :
             \E today \in todays(timestamp) :
                \E io \in save_faults(take_reading(timestamp), today) :
                   st_transmit_and_store(timestamp, send_ok, rssi, today, io)
    \/ /\ st_serving
       /\ LET files == sorted(glob_csv(primary, storage.station_id))
          IN  \E targets \in TargetInputs :
                 \E fault \in (IF targets = {} THEN {NoFault}
                               ELSE mark_faults(primary, files, targets)) :
                    ls_mark_as_sent(targets, fault)
    \/ \E fail_file \in 0..Cardinality(glob_csv(primary, storage.station_id)) :
          ls_get_unsent_readings(fail_file)

SpecShared == SharedInit /\ [][SharedNext]_vars

\* C29: no operation of the ledger of station A (rotation after a save,
\* get_unsent_readings, mark_as_sent) reads, rewrites or deletes a partition
\* file of a station B with another id that shares the storage root, also
\* when B's id is A's id, "_" and more: every file of B stays in the root
\* as it was, and get_unsent_readings returns rows of A only.
C29_OtherStationUntouched ==
    [][/\ \A n \in other_files(primary) : n \in DOMAIN primary' /\ primary'[n] = primary[n]
       /\ \A i \in 1..Len(last_call'.unsent) :
             last_call'.unsent[i].station_id = storage.station_id]_vars

\* the same for a second station whose id does not begin with A's id and "_"
unrelated_station_untouched ==
    [][(\A n \in other_files(primary) : ~starts_with(n, storage.station_id \o <<"_">>))
         => /\ \A n \in other_files(primary) :
                  n \in DOMAIN primary' /\ primary'[n] = primary[n]
            /\ \A i \in 1..Len(last_call'.unsent) :
                  last_call'.unsent[i].station_id = storage.station_id]_vars

====
